---- MODULE Spec2Model ----
(***************************************************************************)
(* A model of the kyoushi generator's TIM -> TSM pass:                     *)
(*   random.py    SeedStore                                                *)
(*   template.py  _env_add_generators, create_*environment,                *)
(*                render_template, write_template, render_tim              *)
(*   cli.py       setup_tsm (environments, context, manifest, walk, drain) *)
(* Paths are sequences of path components relative to the TSM directory;  *)
(* python dicts are sets of <<key, value>> pairs with unique keys; dict    *)
(* objects live in a heap so that aliasing and in-place mutation show.     *)
(***************************************************************************)
EXTENDS Integers, Sequences, FiniteSets, TLC

VARIABLES
    pc,            \* position in setup_tsm: start, context, manifest, walk,
                   \* drain_files, drain_dirs, done, error
    run,           \* the arguments of setup_tsm and what its documents hold
    seed_store,    \* the pass's SeedStore (cli.py:256)
    context_env,   \* globals of the context environment (cli.py:258)
    render_env,    \* globals of the render environment (cli.py:264)
    created,       \* every generator instance gen.create returned, in order
    heap,          \* the dict objects: heap[ref] is the mapping of object ref
    context,       \* ref of the rendered context mapping (cli.py:269), 0 = unset
    object_config, \* the validated manifest (cli.py:274)
    stack,         \* the active render_tim calls, innermost last
    delete_dirs,   \* the directory-deletion deque (template.py:475); an entry
                   \* is [path, by]: the path queued and its node's address
    delete_files,  \* the file-deletion deque (template.py:477)
    pushed,        \* every append to either deque, in order, never popped
    walked,        \* the manifest addresses of the nodes processed, in order
    fs,            \* the TSM directory tree: path -> entry
    rendered,      \* every write_template call of the walk, in order
    removed,       \* every unlink / rmtree the drain issued, in order
    error,         \* the exception that ended the pass, "none" while there is none
    stores,        \* two stand-alone SeedStore instances (random.py)
    draws,         \* what each stand-alone instance returned so far
    passes,        \* the outcome of every pass that ended, in order
    arg,           \* the argument of a function called on its own
    result         \* what that call returned or raised, <<>> before the call

vars == <<pc, run, seed_store, context_env, render_env, created, heap, context,
          object_config, stack, delete_dirs, delete_files, pushed, walked, fs,
          rendered, removed, error, stores,
                   draws, passes, arg, result>>

(***************************************************************************)
(* Bounds of the model.                                                    *)
(***************************************************************************)
MaxNodes == 3        \* nodes of a manifest of the deletion slice
MaxCtxNodes == 4     \* nodes of a manifest of the context slice
MaxDepth == 3        \* nesting depth of a manifest
MaxGens == 2         \* length of the generator list
MaxDraws == 3        \* draws taken from a stand-alone SeedStore
RandomModulus == 8   \* size of the modelled PRNG state space
MaxSize == 3         \* sys.maxsize, scaled down

(***************************************************************************)
(* Sequences and paths (pathlib.Path).                                     *)
(***************************************************************************)
Range(s) == {s[i] : i \in 1..Len(s)}

\* Path.joinpath for relative paths: Path(".") is the empty sequence
JoinPath(base, rel) == base \o rel

IsPrefix(p, q) == Len(p) <= Len(q) /\ SubSeq(q, 1, Len(p)) = p

Parent(p) == SubSeq(p, 1, Len(p) - 1)

\* the proper, non-empty ancestors of p together with p, outermost first
Prefixes(p) == {SubSeq(p, 1, k) : k \in 0..Len(p)}

(***************************************************************************)
(* Python dicts.                                                           *)
(***************************************************************************)
Keys(d) == {kv[1] : kv \in d}

\* dict.update: the entries of e replace the entries of d with the same key
DictUpdate(d, e) == {kv \in d : kv[1] \notin Keys(e)} \cup e

DictGet(d, k) == (CHOOSE kv \in d : kv[1] = k)[2]

(***************************************************************************)
(* The file system under the TSM directory.                                *)
(***************************************************************************)
Exists(f, p) == p \in DOMAIN f
IsFile(f, p) == Exists(f, p) /\ f[p].kind = "file"
IsDir(f, p) == Exists(f, p) /\ f[p].kind = "dir"

DirEntry == [kind |-> "dir"]
FileEntry(data) == [kind |-> "file", data |-> data]

\* Path.mkdir(parents=True, exist_ok=True): fails when a component is a file
MkdirOk(f, p) == \A q \in Prefixes(p) : ~IsFile(f, q)
Mkdir(f, p) ==
    [q \in DOMAIN f \cup Prefixes(p) |-> IF q \in DOMAIN f THEN f[q] ELSE DirEntry]

\* open(dest, "w"): the parent must be a directory and dest no directory
OpenWriteOk(f, p) == Len(p) > 0 /\ IsDir(f, Parent(p)) /\ ~IsDir(f, p)
WriteFile(f, p, data) ==
    [q \in DOMAIN f \cup {p} |-> IF q = p THEN FileEntry(data) ELSE f[q]]

\* Path.unlink: the path must be an existing file
UnlinkOk(f, p) == IsFile(f, p)
Unlink(f, p) == [q \in DOMAIN f \ {p} |-> f[q]]

\* shutil.rmtree: the path must be an existing directory; its subtree goes
RmtreeOk(f, p) == IsDir(f, p)
Rmtree(f, p) == [q \in {r \in DOMAIN f : ~IsPrefix(p, r)} |-> f[q]]

(***************************************************************************)
(* random.Random, as a small linear congruential generator: seeding with   *)
(* an int uses its absolute value, every draw advances the state.          *)
(***************************************************************************)
Abs(n) == IF n < 0 THEN -n ELSE n

\* Random(seed)
RandomSeed(seed) == Abs(seed) % RandomModulus

\* one step of the generator's state
RandomStep(state) == (5 * state + 3) % RandomModulus

\* Random.randint(lo, hi) read off the state just reached
RandInt(state, lo, hi) == lo + (state % (hi - lo + 1))

(***************************************************************************)
(* random.py: SeedStore                                                    *)
(***************************************************************************)
\* a store whose seeding also depends on how many passes ran before
SeedStoreOfPass(mother_seed) ==
    [mother_seed |-> mother_seed,
     random |-> RandomSeed(mother_seed + Len(passes))]

\* SeedStore.__init__
SeedStore(mother_seed) ==
    [mother_seed |-> mother_seed, random |-> RandomSeed(mother_seed)]

\* SeedStore.__next__: [value, store] after one draw
SeedStoreDunderNext(store) ==
    LET s == RandomStep(store.random)
    IN  [value |-> RandInt(s, MaxSize * (-1), MaxSize),
         store |-> [store EXCEPT !.random = s]]

\* a next() that starts over from the mother seed on every call
SeedStoreNextReseeding(store) ==
    [value |-> SeedStoreDunderNext(SeedStore(store.mother_seed)).value,
     store |-> store]

\* SeedStore.next
SeedStoreNext(store) == SeedStoreDunderNext(store)

\* SeedStore.__iter__ returns the store itself: a for loop calls __next__
SeedStoreIter(store) == store

(***************************************************************************)
(* Generators and environments (template.py).                              *)
(***************************************************************************)
\* Generator.create(seed_store): one seed drawn, one instance returned;
\* id tells instances apart
GeneratorCreate(gen, store, id) ==
    LET d == SeedStoreNext(store)
    IN  [instance |-> [name |-> gen.name, seed |-> d.value, id |-> id],
         store |-> d.store]

\* create_template_object_environment: strict undefined, no generators
create_template_object_environment ==
    [globals |-> {}, undefined |-> "strict", delimiters |-> "default"]

\* a binding loop that creates only the first generator
RECURSIVE EnvAddGeneratorsFirstOnly(_, _, _, _)
EnvAddGeneratorsFirstOnly(env, store, generators, made) ==
    IF generators = <<>>
    THEN [env |-> env, store |-> store, made |-> made]
    ELSE LET c == GeneratorCreate(Head(generators), store, Len(made) + 1)
         IN  [env |-> [env EXCEPT !.globals =
                          DictUpdate(@, {<<Head(generators).name, c.instance>>})],
              store |-> c.store, made |-> Append(made, c.instance)]

\* _env_add_generators: for each generator in order, create it from the
\* seed store and bind it under its name
RECURSIVE EnvAddGenerators(_, _, _, _)
EnvAddGenerators(env, store, generators, made) ==
    IF generators = <<>>
    THEN [env |-> env, store |-> store, made |-> made]
    ELSE LET c == GeneratorCreate(Head(generators), store, Len(made) + 1)
         IN  EnvAddGenerators(
                 [env EXCEPT !.globals =
                     DictUpdate(@, {<<Head(generators).name, c.instance>>})],
                 c.store, Tail(generators), Append(made, c.instance))

\* create_context_environment
create_context_environment(store, generators, made) ==
    EnvAddGenerators(create_template_object_environment, store, generators, made)

\* create_environment: configured delimiters, strict undefined, generators
create_environment(store, config, generators, made) ==
    EnvAddGenerators(
        [globals |-> {}, undefined |-> "strict", delimiters |-> config],
        store, generators, made)

(***************************************************************************)
(* Templates and values.  A template either is a literal that evaluates    *)
(* to one value, or reads one variable.  Values carry their python type:   *)
(* [type |-> "mapping" | "list" | "str" | "int" | "generator", v |-> ...]. *)
(***************************************************************************)
MappingValue(d) == [type |-> "mapping", v |-> d]
ListValue(l) == [type |-> "list", v |-> l]
StrValue(t) == [type |-> "str", v |-> t]
\* the text of a string: a YAML document, known by what it loads to, or plain
YamlText(value) == [yaml |-> value]
PlainText(t) == [plain |-> t]
\* a text that is neither YAML nor JSON
MalformedText == [malformed |-> TRUE]
\* an exception in the place of a value
ErrorValue(kind) == [type |-> "error", v |-> kind]
GeneratorValue(g) == [type |-> "generator", v |-> g]
\* the StrictUndefined object jinja2 makes for a name that is not bound
UndefinedValue(name) == [type |-> "undefined", v |-> name]

Literal(value) == [literal |-> value]
Variable(name) == [variable |-> name]
\* a template that puts the value of one variable into some text
Embedded(name) == [embedded |-> name]
\* a template that evaluates to the mapping {key: <generator name>.generate()}
Generated(key, name) == [generated |-> name, key |-> key]

\* RandomInt.generate of an instance set up with its seed (core.py:33-34):
\* the first draw of Random(seed)
GeneratorGenerate(instance) ==
    RandInt(RandomStep(RandomSeed(instance.seed)), 0, MaxSize)

\* the value a name has in a render: looked up in the context, then in the
\* environment's globals, else the Undefined object
Lookup(env, name, kwargs) ==
    IF name \in Keys(kwargs) THEN DictGet(kwargs, name)
    ELSE IF name \in Keys(env.globals)
    THEN GeneratorValue(DictGet(env.globals, name))
    ELSE UndefinedValue(name)

\* Template.render(**context) of a NativeEnvironment with StrictUndefined.
\* A template that is one expression evaluates to the expression's own value,
\* the Undefined object included; any use of an Undefined object (its str()
\* in text, an attribute of it) raises; a file holding no template syntax
\* evaluates to its own text
Evaluate(env, template, kwargs) ==
    IF "literal" \in DOMAIN template
    THEN [ok |-> TRUE, value |-> template.literal]
    ELSE IF "generated" \in DOMAIN template
    THEN IF template.generated \in Keys(env.globals)
         THEN [ok |-> TRUE,
               value |-> MappingValue({<<template.key,
                   GeneratorGenerate(DictGet(env.globals, template.generated))>>})]
         ELSE [ok |-> FALSE, error |-> "UndefinedError"]
    ELSE IF "embedded" \in DOMAIN template
    THEN IF Lookup(env, template.embedded, kwargs).type = "undefined"
         THEN [ok |-> FALSE, error |-> "UndefinedError"]
         ELSE [ok |-> TRUE,
               value |-> StrValue(PlainText(
                             <<"text", Lookup(env, template.embedded, kwargs)>>))]
    ELSE IF "variable" \in DOMAIN template
    THEN [ok |-> TRUE, value |-> Lookup(env, template.variable, kwargs)]
    ELSE [ok |-> TRUE, value |-> StrValue(PlainText(template))]

\* the template argument of render_template: a Path or a template string
PathTemplate(path) == [path |-> path]
TextTemplate(source) == [text |-> source]

\* a render_template that returns whatever the render gave
RenderTemplateUnchecked(env, f, template, kwargs) ==
    IF "text" \in DOMAIN template THEN Evaluate(env, template.text, kwargs)
    ELSE IF ~IsFile(f, template.path)
    THEN [ok |-> FALSE, error |-> "TemplateNotFound"]
    ELSE Evaluate(env, f[template.path].data, kwargs)

\* render_template: a Path is loaded from the TSM directory (or raises
\* TemplateNotFound), a string is compiled as it is; a result that is an
\* Undefined object raises its error (template.py:325-326)
render_template(env, f, template, kwargs) ==
    LET r == IF "text" \in DOMAIN template
             THEN Evaluate(env, template.text, kwargs)
             ELSE IF ~IsFile(f, template.path)
             THEN [ok |-> FALSE, error |-> "TemplateNotFound"]
             ELSE Evaluate(env, f[template.path].data, kwargs)
    IN  IF r.ok /\ r.value.type = "undefined"
        THEN [ok |-> FALSE, error |-> "UndefinedError"]
        ELSE r

\* a write that never takes the YAML branch
WrittenAsText(value) == [fmt |-> "str", value |-> value]

\* what write_template puts into the file: mappings and non-string
\* sequences as YAML, everything else as str(value)
Written(value) ==
    IF value.type \in {"mapping", "list"}
    THEN [fmt |-> "yaml", value |-> value]
    ELSE [fmt |-> "str", value |-> value]

\* a write that opens dest before it renders
WriteTemplateOpenFirst(env, f, src, dest, kwargs) ==
    LET r == render_template(env, f, PathTemplate(src), kwargs)
    IN  IF ~OpenWriteOk(f, dest)
        THEN [ok |-> FALSE, error |-> "OSError", fs |-> f]
        ELSE IF ~r.ok
        THEN [ok |-> FALSE, error |-> r.error,
              fs |-> WriteFile(f, dest, Written(StrValue(PlainText(""))))]
        ELSE [ok |-> TRUE, error |-> "none",
              fs |-> WriteFile(f, dest, Written(r.value))]

\* write_template: render first, then open dest for writing and write
write_template(env, f, src, dest, kwargs) ==
    LET r == render_template(env, f, PathTemplate(src), kwargs)
    IN  IF ~r.ok THEN [ok |-> FALSE, error |-> r.error, fs |-> f]
        ELSE IF ~OpenWriteOk(f, dest)
        THEN [ok |-> FALSE, error |-> "OSError", fs |-> f]
        ELSE [ok |-> TRUE, error |-> "none",
              fs |-> WriteFile(f, dest, Written(r.value))]

(***************************************************************************)
(* The manifest model (template.py: BaseObject, File, Directory) and       *)
(* validate_object_list.  Raw nodes use the external names type and copy.  *)
(***************************************************************************)
\* a node of Directory.contents, a plain Union[File, Directory] (template.py:
\* 408-410): File is tried first and its type defaults to "file", so a node
\* without a type is a File; name, src and dest are required
RECURSIVE ValidNested(_)
ValidNested(raw) ==
    /\ {"name", "src", "dest"} \subseteq DOMAIN raw
    /\ "type" \in DOMAIN raw => raw.type \in {"file", "dir"}
    /\ "type" \in DOMAIN raw /\ raw.type = "dir" /\ "contents" \in DOMAIN raw
          => \A i \in 1..Len(raw.contents) : ValidNested(raw.contents[i])

\* a node of the list itself, a union discriminated by "type" (template.py:
\* 439-441): the type has to be there
ValidNode(raw) == "type" \in DOMAIN raw /\ ValidNested(raw)

RECURSIVE ParseNode(_)
ParseNode(raw) ==
    LET base == [type_ |-> IF "type" \in DOMAIN raw THEN raw.type ELSE "file",
                 name |-> raw.name,
                 src |-> raw.src, dest |-> raw.dest,
                 delete |-> IF "delete" \in DOMAIN raw THEN raw.delete ELSE TRUE,
                 extra |-> IF "extra" \in DOMAIN raw THEN raw.extra ELSE {}]
    IN  IF base.type_ = "file" THEN base
        ELSE [type_ |-> base.type_, name |-> base.name, src |-> base.src,
              dest |-> base.dest, delete |-> base.delete, extra |-> base.extra,
              copy_ |-> IF "copy" \in DOMAIN raw THEN raw.copy ELSE <<>>,
              contents |-> IF "contents" \in DOMAIN raw
                           THEN [i \in 1..Len(raw.contents) |->
                                     ParseNode(raw.contents[i])]
                           ELSE <<>>]

\* validate_object_list: [ok, value] or a validation error
validate_object_list(object_list) ==
    IF \A i \in 1..Len(object_list) : ValidNode(object_list[i])
    THEN [ok |-> TRUE,
          value |-> [i \in 1..Len(object_list) |-> ParseNode(object_list[i])]]
    ELSE [ok |-> FALSE, error |-> "ValidationError"]

\* a dict() that keeps the field names type_ and copy_
RECURSIVE DictByFieldName(_)
DictByFieldName(node) ==
    IF node.type_ = "file"
    THEN [type_ |-> node.type_, name |-> node.name, src |-> node.src,
          dest |-> node.dest, delete |-> node.delete, extra |-> node.extra]
    ELSE [type_ |-> node.type_, name |-> node.name, src |-> node.src,
          dest |-> node.dest, delete |-> node.delete, extra |-> node.extra,
          copy_ |-> node.copy_,
          contents |-> [i \in 1..Len(node.contents) |->
                            DictByFieldName(node.contents[i])]]

\* BaseObject.dict: by_alias defaults to true, so the fields are written
\* under their external names type and copy, nested nodes included
RECURSIVE Dict(_)
Dict(node) ==
    IF node.type_ = "file"
    THEN [type |-> node.type_, name |-> node.name, src |-> node.src,
          dest |-> node.dest, delete |-> node.delete, extra |-> node.extra]
    ELSE [type |-> node.type_, name |-> node.name, src |-> node.src,
          dest |-> node.dest, delete |-> node.delete, extra |-> node.extra,
          copy |-> node.copy_,
          contents |-> [i \in 1..Len(node.contents) |-> Dict(node.contents[i])]]

(***************************************************************************)
(* The manifests the model draws its inputs from: all raw node lists of at *)
(* most n nodes and nesting depth d whose fields come from the slice S.    *)
(***************************************************************************)
RawFiles(S) ==
    [type : {"file"}, name : {"n"}, src : S.fsrc, dest : S.fdest,
     delete : S.fdelete, extra : S.fextra]

RawDirs(S, C) ==
    [type : {"dir"}, name : {"n"}, src : S.dsrc, dest : S.ddest,
     delete : S.ddelete, extra : S.dextra, copy : S.dcopy, contents : C]

RECURSIVE Forests(_, _, _)
RECURSIVE Trees(_, _, _)
\* the node lists of exactly n nodes and depth at most d
Forests(S, n, d) ==
    IF n = 0 THEN {<<>>}
    ELSE IF d = 0 THEN {}
    ELSE UNION {{<<h>> \o t : h \in Trees(S, k, d), t \in Forests(S, n - k, d)} :
                    k \in 1..n}
\* the nodes whose subtree has exactly k nodes
Trees(S, k, d) ==
    (IF k = 1 THEN RawFiles(S) ELSE {}) \cup RawDirs(S, Forests(S, k - 1, d - 1))

Manifests(S, n, d) == UNION {Forests(S, m, d) : m \in 0..n}

(***************************************************************************)
(* Manifest addresses: the address of a node is the sequence of indices    *)
(* leading to it; NodeAt and the directories above an address.             *)
(***************************************************************************)
RECURSIVE NodeAt(_, _)
NodeAt(object_list, addr) ==
    IF Len(addr) = 1 THEN object_list[addr[1]]
    ELSE NodeAt(object_list[addr[1]].contents, Tail(addr))

RECURSIVE Addresses(_)
Addresses(object_list) ==
    UNION {{<<i>>} \cup
           (IF object_list[i].type_ = "dir"
            THEN {<<i>> \o a : a \in Addresses(object_list[i].contents)}
            ELSE {}) : i \in 1..Len(object_list)}

\* a strictly above b in the manifest
IsAncestor(a, b) == Len(a) < Len(b) /\ IsPrefix(a, b)

(***************************************************************************)
(* The heap of dict objects.  Object 1 is the shared default value of      *)
(* render_tim's parent_context parameter.                                  *)
(***************************************************************************)
DefaultParentContext == 1

\* a copy that hands back the same object
DictCopyAlias(h, ref) == [heap |-> h, ref |-> ref]

\* dict.copy: a new object with the same entries
DictCopy(h, ref) == [heap |-> Append(h, h[ref]), ref |-> Len(h) + 1]

\* an update in which the entries already present win
HeapUpdateKeepOld(h, ref, e) == [h EXCEPT ![ref] = DictUpdate(e, @)]

\* dict.update in place on object ref
HeapUpdate(h, ref, e) == [h EXCEPT ![ref] = DictUpdate(@, e)]

(***************************************************************************)
(* collections.deque                                                       *)
(***************************************************************************)
Paths(q) == {q[i].path : i \in 1..Len(q)}

\* deque.pop: the entry appended last
DequePop(q) == [value |-> q[Len(q)], deque |-> SubSeq(q, 1, Len(q) - 1)]

(***************************************************************************)
(* The TIM tree copied into the TSM directory, and the other inputs.       *)
(***************************************************************************)
ContextFile == <<"model", "context.yml.j2">>
ObjectConfigFile == <<"model", "templates.yml.j2">>

TimTree(r) ==
    LET dirs == {<<>>, <<"a">>, <<"a", "b">>, <<"model">>}
        files == {<<"b">>, <<"c">>, <<"a", "c">>, <<"a", "b", "c">>,
                  ContextFile, ObjectConfigFile}
    IN  [p \in dirs \cup files |->
            IF p \in dirs THEN DirEntry
            ELSE IF p = <<"b">> THEN FileEntry(Literal(StrValue(PlainText("text"))))
            ELSE IF p = <<"c">> THEN FileEntry(Variable("parent_context"))
            ELSE IF p = <<"a", "c">> THEN FileEntry(Variable("context"))
            ELSE IF p = <<"a", "b", "c">> THEN FileEntry(Variable("local_context"))
            ELSE IF p = ContextFile
            THEN FileEntry(IF "generated" \in DOMAIN r.context_doc
                           THEN r.context_doc ELSE Literal(r.context_doc))
            ELSE FileEntry(Literal(r.object_doc))]

\* the process working directory when it is not the TSM directory
OtherCwdTree == [p \in {<<>>} |-> DirEntry]

FileSrcPaths == {<<"b">>, <<"c">>}
DirSrcPaths == {<<"a">>, <<"b">>}
DirExtras == {{<<"k1", 1>>}, {<<"k2", 2>>}, {<<"k1", 2>>}}
FileExtras == {{<<"k1", 3>>}}
SeedSet == {-1, 0, 1, 2}
GenNames == {"g1", "g2"}
SomeInputs == {<<"user", 7>>}
SomeContext == {<<"k1", 0>>, <<"k3", 0>>}

\* manifests that exercise the deletion queues
QueueSlice ==
    [fsrc |-> FileSrcPaths, fdest |-> {<<"f">>}, fdelete |-> BOOLEAN, fextra |-> {{}},
     dsrc |-> DirSrcPaths, ddest |-> {<<"o">>}, ddelete |-> BOOLEAN, dextra |-> {{}},
     dcopy |-> {<<>>}]

\* manifests that exercise the context layers
ContextSlice ==
    [fsrc |-> {<<"c">>}, fdest |-> {<<"f">>}, fdelete |-> {FALSE},
     fextra |-> FileExtras,
     dsrc |-> {<<>>}, ddest |-> {<<"o">>}, ddelete |-> {FALSE},
     dextra |-> DirExtras, dcopy |-> {<<>>}]

GeneratorLists ==
    UNION {[1..n -> [name : GenNames]] : n \in 0..MaxGens}

\* the runs of at most n (deletion slice) and c (context slice) nodes, at
\* most d deep, and the runs that vary the seed and the generators
Runs(n, c, d) ==
    [seed : {1}, jinja_config : {"config"}, inputs : {SomeInputs},
     generators : {<<[name |-> "g1"]>>},
     context_doc : {StrValue(YamlText(MappingValue(SomeContext)))},
     object_doc : {ListValue(m) : m \in Manifests(QueueSlice, n, d)},
     cwd_is_tsm : {TRUE}]
    \cup
    [seed : {1}, jinja_config : {"config"}, inputs : {SomeInputs},
     generators : {<<[name |-> "g1"]>>},
     context_doc : {StrValue(YamlText(MappingValue(SomeContext)))},
     object_doc : {ListValue(m) : m \in Manifests(ContextSlice, c, d)},
     cwd_is_tsm : {TRUE}]
    \cup
    [seed : SeedSet, jinja_config : {"config"}, inputs : {SomeInputs},
     generators : GeneratorLists,
     context_doc : {StrValue(YamlText(MappingValue(SomeContext)))},
     object_doc : {ListValue(m) : m \in Manifests(QueueSlice, 1, 1)},
     cwd_is_tsm : {TRUE}]

NoStore == [mother_seed |-> 0, random |-> 0]
NoEnv == [globals |-> {}, undefined |-> "strict", delimiters |-> "none"]

Init ==
    /\ run \in Runs(MaxNodes, MaxCtxNodes, MaxDepth)
    /\ pc = "start"
    /\ seed_store = NoStore
    /\ context_env = NoEnv
    /\ render_env = NoEnv
    /\ created = <<>>
    /\ heap = [ref \in {DefaultParentContext} |-> {}]
    /\ context = 0
    /\ object_config = <<>>
    /\ stack = <<>>
    /\ delete_dirs = <<>>
    /\ delete_files = <<>>
    /\ pushed = <<>>
    /\ walked = <<>>
    /\ fs = TimTree(run)
    /\ rendered = <<>>
    /\ removed = <<>>
    /\ error = "none"
    /\ stores = <<NoStore, NoStore>>
    /\ draws = <<<<>>, <<>>>>
    /\ passes = <<>>
    /\ arg = <<>>
    /\ result = <<>>

(***************************************************************************)
(* setup_tsm, up to the call of render_tim (cli.py:256-291).               *)
(***************************************************************************)
\* utils.load_config: a string is parsed as YAML and, when that fails, as
\* JSON, whose error is the one raised; any other value is returned as is.
\* A plain scalar loads as the same string
load_config(value) ==
    IF value.type # "str" THEN value
    ELSE IF "yaml" \in DOMAIN value.v THEN value.v.yaml
    ELSE IF "malformed" \in DOMAIN value.v THEN ErrorValue("JSONDecodeError")
    ELSE value

\* an exception of the walk after which the deletion loops still run
FailAndDrain(kind) ==
    /\ pc' = IF stack = <<>> THEN "error" ELSE "drain_files"
    /\ error' = kind

\* an exception propagates out of setup_tsm: nothing of the pass runs after it
Fail(kind) ==
    /\ pc' = "error"
    /\ error' = kind

\* cli.py:256-266: the seed store and the three environments
SetupEnvironments ==
    /\ pc = "start"
    /\ LET c == create_context_environment(SeedStore(run.seed), run.generators, <<>>)
           r == create_environment(c.store, run.jinja_config, run.generators, c.made)
       IN  /\ context_env' = c.env
           /\ render_env' = r.env
           /\ seed_store' = r.store
           /\ created' = r.made
    /\ pc' = "context"
    /\ UNCHANGED <<run, heap, context, object_config, stack, delete_dirs,
                   delete_files, pushed, walked, fs, rendered, removed, error,
                   stores, draws, passes, arg, result>>

\* cli.py:268-271: the context document rendered against the inputs and
\* loaded; the documents of the model load to a mapping or not at all
RenderContext ==
    /\ pc = "context"
    /\ LET r == render_template(context_env, fs, PathTemplate(ContextFile),
                                {<<"inputs", MappingValue(run.inputs)>>})
       IN  IF r.ok /\ load_config(r.value).type # "error"
           THEN /\ heap' = Append(heap, load_config(r.value).v)
                /\ context' = Len(heap) + 1
                /\ pc' = "manifest"
                /\ UNCHANGED error
           ELSE /\ Fail(IF r.ok THEN load_config(r.value).v ELSE r.error)
                /\ UNCHANGED <<heap, context>>
    /\ UNCHANGED <<run, seed_store, context_env, render_env, created,
                   object_config, stack, delete_dirs, delete_files, pushed,
                   walked, fs, rendered, removed, stores,
                   draws, passes, arg, result>>

\* the arguments setup_tsm passes to render_tim, positionally (cli.py:284-291):
\* render_env, object_config, Path("."), dest, inputs, context
TopFrame(object_list) ==
    [object_list |-> object_list, i |-> 1, src_dir |-> <<>>, dest_dir |-> <<>>,
     global_context |-> run.inputs, parent_context |-> context, addr |-> <<>>]

\* cli.py:273-291: the manifest rendered, loaded and validated, then
\* render_tim called with no queues, so that it makes two (template.py:474-477)
RenderObjectConfig ==
    /\ pc = "manifest"
    /\ LET r == render_template(create_template_object_environment, fs,
                                PathTemplate(ObjectConfigFile),
                                {<<"context", MappingValue(heap[context])>>,
                                 <<"inputs", MappingValue(run.inputs)>>})
           v == IF ~r.ok THEN [ok |-> FALSE, error |-> r.error]
                ELSE IF load_config(r.value).type = "error"
                THEN [ok |-> FALSE, error |-> load_config(r.value).v]
                ELSE IF load_config(r.value).type = "list"
                THEN validate_object_list(load_config(r.value).v)
                ELSE [ok |-> FALSE, error |-> "ValidationError"]
       IN  IF v.ok
           THEN /\ object_config' = v.value
                /\ stack' = <<TopFrame(v.value)>>
                /\ delete_dirs' = <<>>
                /\ delete_files' = <<>>
                /\ pc' = "walk"
                /\ UNCHANGED error
           ELSE /\ Fail(v.error)
                /\ UNCHANGED <<object_config, stack, delete_dirs, delete_files>>
    /\ UNCHANGED <<run, seed_store, context_env, render_env, created, heap,
                   context, pushed, walked, fs, rendered, removed, stores,
                   draws, passes, arg, result>>

(***************************************************************************)
(* render_tim (template.py:479-524), one node per step.                    *)
(***************************************************************************)
Top == stack[Len(stack)]
Obj == Top.object_list[Top.i]
Src == JoinPath(Top.src_dir, Obj.src)
Dest == JoinPath(Top.dest_dir, Obj.dest)
Addr == Append(Top.addr, Top.i)
AtNode == pc = "walk" /\ stack # <<>> /\ Top.i <= Len(Top.object_list)

\* src.glob(glb): the children of src in the working directory that match
Matches(tree, src, glb) ==
    {p \in DOMAIN tree :
        /\ Len(p) = Len(src) + 1
        /\ IsPrefix(src, p)
        /\ glb = "*" \/ p[Len(p)] = glb}

\* where shutil.copy puts copy_src: into copy_dest when that is a directory
CopyTarget(f, src, dest, p) ==
    LET copy_dest == JoinPath(dest, SubSeq(p, Len(src) + 1, Len(p)))
    IN  IF IsDir(f, copy_dest) THEN Append(copy_dest, p[Len(p)]) ELSE copy_dest

CopyAll(f, tree, ps, src, dest) ==
    [q \in DOMAIN f \cup {CopyTarget(f, src, dest, p) : p \in ps} |->
        IF \E p \in ps : CopyTarget(f, src, dest, p) = q
        THEN tree[CHOOSE p \in ps : CopyTarget(f, src, dest, p) = q]
        ELSE f[q]]

\* template.py:488-494: the outcomes of the copy loops.  A match that cannot
\* be copied raises after the matches the glob yielded before it were copied
RECURSIVE CopyGlobs(_, _, _, _, _)
CopyGlobs(f, src, dest, globs, cwd_is_tsm) ==
    IF globs = <<>> THEN {[ok |-> TRUE, fs |-> f]}
    ELSE LET tree == IF cwd_is_tsm THEN f ELSE OtherCwdTree
             m == Matches(tree, src, Head(globs))
             good == {p \in m : IsFile(tree, p)
                                  /\ ~IsDir(f, CopyTarget(f, src, dest, p))}
         IN  IF good = m
             THEN CopyGlobs(CopyAll(f, tree, m, src, dest), src, dest,
                            Tail(globs), cwd_is_tsm)
             ELSE {[ok |-> FALSE, fs |-> CopyAll(f, tree, done, src, dest)] :
                       done \in SUBSET good}

\* a Directory queued on its flag alone
DirQueuedOnFlag(obj, src, dirs, files) == obj.delete

\* template.py:499: whether a Directory's src is appended to delete_dirs
DirQueued(obj, src, dirs, files) == obj.delete /\ src \notin Paths(files)

\* template.py:518: whether a File's src is appended to delete_files
FileQueued(obj, src, dirs, files) == obj.delete /\ src \notin Paths(files)

\* template.py:513-517: the context a File is rendered with
FileContext(global_context, parent_context, obj) ==
    {<<"context", MappingValue(global_context)>>,
     <<"parent_context", MappingValue(parent_context)>>,
     <<"local_context", MappingValue(obj.extra)>>}

Advance(stk) == [stk EXCEPT ![Len(stk)].i = @ + 1]

\* template.py:482-510: a Directory node
RenderTimDirectory ==
    /\ AtNode
    /\ Obj.type_ = "dir"
    /\ IF ~MkdirOk(fs, Dest)
       THEN /\ Fail("FileExistsError")
            /\ UNCHANGED <<fs, heap, delete_dirs, pushed, stack, walked>>
       ELSE \E out \in CopyGlobs(Mkdir(fs, Dest), Src, Dest, Obj.copy_,
                                 run.cwd_is_tsm) :
              /\ fs' = out.fs
              /\ IF ~out.ok
                 THEN /\ Fail("OSError")
                      /\ UNCHANGED <<heap, delete_dirs, pushed, stack, walked>>
                 ELSE LET c == DictCopy(heap, Top.parent_context)
                          q == DirQueued(Obj, Src, delete_dirs, delete_files)
                          e == [path |-> Src, by |-> Addr]
                      IN  /\ heap' = HeapUpdate(c.heap, c.ref, Obj.extra)
                          /\ delete_dirs' = IF q THEN Append(delete_dirs, e)
                                            ELSE delete_dirs
                          /\ pushed' = IF q THEN Append(pushed, [kind |-> "dir",
                                                path |-> Src, by |-> Addr])
                                       ELSE pushed
                          /\ walked' = Append(walked, Addr)
                          /\ stack' = Append(Advance(stack),
                                 [object_list |-> Obj.contents, i |-> 1,
                                  src_dir |-> Src, dest_dir |-> Dest,
                                  global_context |-> Top.global_context,
                                  parent_context |-> c.ref, addr |-> Addr])
                          /\ UNCHANGED <<pc, error>>
    /\ UNCHANGED <<run, seed_store, context_env, render_env, created, context,
                   object_config, delete_files, rendered, removed, stores,
                   draws, passes, arg, result>>

\* template.py:512-522: a File node, or a node of neither type
RenderTimFile ==
    /\ AtNode
    /\ Obj.type_ # "dir"
    /\ IF Obj.type_ # "file"
       THEN /\ Fail("NotImplementedError")
            /\ UNCHANGED <<fs, delete_files, pushed, stack, walked, rendered>>
       ELSE LET kwargs == FileContext(Top.global_context,
                                      heap[Top.parent_context], Obj)
                q == FileQueued(Obj, Src, delete_dirs, delete_files)
                w == write_template(render_env, fs, Src, Dest, kwargs)
            IN  /\ delete_files' = IF q
                                   THEN Append(delete_files,
                                               [path |-> Src, by |-> Addr])
                                   ELSE delete_files
                /\ pushed' = IF q THEN Append(pushed, [kind |-> "file",
                                                path |-> Src, by |-> Addr])
                             ELSE pushed
                /\ rendered' = Append(rendered,
                                   [addr |-> Addr, src |-> Src, dest |-> Dest,
                                    kwargs |-> kwargs, ok |-> w.ok])
                /\ fs' = w.fs
                /\ IF w.ok
                   THEN /\ walked' = Append(walked, Addr)
                        /\ stack' = Advance(stack)
                        /\ UNCHANGED <<pc, error>>
                   ELSE /\ Fail(w.error)
                        /\ UNCHANGED <<walked, stack>>
    /\ UNCHANGED <<run, seed_store, context_env, render_env, created, heap,
                   context, object_config, delete_dirs, removed, stores,
                   draws, passes, arg, result>>

\* a return that hands control to the drain from any depth
AfterReturnEager(stk) == "drain_files"

\* where control is after a render_tim call returns: in the caller's loop, or
\* back in setup_tsm when the outermost call returns (cli.py:284)
AfterReturn(stk) == IF stk = <<>> THEN "drain_files" ELSE "walk"

\* template.py:524: the loop of one call is over
RenderTimReturn ==
    /\ pc = "walk"
    /\ stack # <<>>
    /\ Top.i > Len(Top.object_list)
    /\ stack' = SubSeq(stack, 1, Len(stack) - 1)
    /\ pc' = AfterReturn(stack')
    /\ UNCHANGED <<run, seed_store, context_env, render_env, created, heap,
                   context, object_config, delete_dirs, delete_files, pushed,
                   walked, fs, rendered, removed, error, stores,
                   draws, passes, arg, result>>

(***************************************************************************)
(* setup_tsm, the drain (cli.py:293-303).                                  *)
(***************************************************************************)
\* a second loop that may start while files are still queued
DirDrainMayStartEarly(phase, files) == phase \in {"drain_files", "drain_dirs"}

\* the directory loop runs once the file loop has ended (cli.py:299)
DirDrainMayStart(phase, files) == phase = "drain_dirs"

\* cli.py:294-296: one iteration of the file loop
DrainFile ==
    /\ pc = "drain_files"
    /\ delete_files # <<>>
    /\ LET p == DequePop(delete_files)
           ok == UnlinkOk(fs, p.value.path)
       IN  /\ delete_files' = p.deque
           /\ removed' = Append(removed, [kind |-> "file", path |-> p.value.path,
                                          by |-> p.value.by, ok |-> ok])
           /\ IF ok
              THEN /\ fs' = Unlink(fs, p.value.path)
                   /\ UNCHANGED <<pc, error>>
              ELSE /\ Fail("FileNotFoundError")
                   /\ UNCHANGED fs
    /\ UNCHANGED <<run, seed_store, context_env, render_env, created, heap,
                   context, object_config, stack, delete_dirs, pushed, walked,
                   rendered, stores,
                   draws, passes, arg, result>>

\* cli.py:294: the file loop ends when the deque is empty
DrainFilesDone ==
    /\ pc = "drain_files"
    /\ delete_files = <<>>
    /\ pc' = "drain_dirs"
    /\ UNCHANGED <<run, seed_store, context_env, render_env, created, heap,
                   context, object_config, stack, delete_dirs, delete_files,
                   pushed, walked, fs, rendered, removed, error, stores,
                   draws, passes, arg, result>>

\* cli.py:299-301: one iteration of the directory loop
DrainDir ==
    /\ DirDrainMayStart(pc, delete_files)
    /\ delete_dirs # <<>>
    /\ LET p == DequePop(delete_dirs)
           ok == RmtreeOk(fs, p.value.path)
       IN  /\ delete_dirs' = p.deque
           /\ removed' = Append(removed, [kind |-> "dir", path |-> p.value.path,
                                          by |-> p.value.by, ok |-> ok])
           /\ IF ok
              THEN /\ fs' = Rmtree(fs, p.value.path)
                   /\ UNCHANGED <<pc, error>>
              ELSE /\ Fail("FileNotFoundError")
                   /\ UNCHANGED fs
    /\ UNCHANGED <<run, seed_store, context_env, render_env, created, heap,
                   context, object_config, stack, delete_files, pushed, walked,
                   rendered, stores,
                   draws, passes, arg, result>>

\* cli.py:299-303: the directory loop ends and setup_tsm returns
DrainDirsDone ==
    /\ pc = "drain_dirs"
    /\ delete_dirs = <<>>
    /\ pc' = "done"
    /\ UNCHANGED <<run, seed_store, context_env, render_env, created, heap,
                   context, object_config, stack, delete_dirs, delete_files,
                   pushed, walked, fs, rendered, removed, error, stores,
                   draws, passes, arg, result>>

Next ==
    \/ SetupEnvironments
    \/ RenderContext
    \/ RenderObjectConfig
    \/ RenderTimDirectory
    \/ RenderTimFile
    \/ RenderTimReturn
    \/ DrainFile
    \/ DrainFilesDone
    \/ DrainDir
    \/ DrainDirsDone

Spec == Init /\ [][Next]_vars

(***************************************************************************)
(* Two stand-alone SeedStore instances, drawn from through next(),         *)
(* __next__() and iteration (random.py:38-50).                             *)
(***************************************************************************)
IdleRun ==
    [seed |-> 1, jinja_config |-> "config", inputs |-> SomeInputs,
     generators |-> <<>>,
     context_doc |-> StrValue(YamlText(MappingValue(SomeContext))),
     object_doc |-> ListValue(<<>>), cwd_is_tsm |-> TRUE]

InitSeed ==
    /\ run = IdleRun
    /\ pc = "stores"
    /\ seed_store = NoStore
    /\ context_env = NoEnv
    /\ render_env = NoEnv
    /\ created = <<>>
    /\ heap = <<{}>>
    /\ context = 0
    /\ object_config = <<>>
    /\ stack = <<>>
    /\ delete_dirs = <<>>
    /\ delete_files = <<>>
    /\ pushed = <<>>
    /\ walked = <<>>
    /\ fs = TimTree(run)
    /\ rendered = <<>>
    /\ removed = <<>>
    /\ error = "none"
    /\ \E s1 \in SeedSet, s2 \in SeedSet : stores = <<SeedStore(s1), SeedStore(s2)>>
    /\ draws = <<<<>>, <<>>>>
    /\ passes = <<>>
    /\ arg = <<>>
    /\ result = <<>>

Draw(i, d) ==
    /\ pc = "stores"
    /\ Len(draws[i]) < MaxDraws
    /\ stores' = [stores EXCEPT ![i] = d.store]
    /\ draws' = [draws EXCEPT ![i] = Append(@, d.value)]
    /\ UNCHANGED <<pc, run, seed_store, context_env, render_env, created, heap,
                   context, object_config, stack, delete_dirs, delete_files,
                   pushed, walked, fs, rendered, removed, error, passes, arg, result>>

\* store.next()
CallNext(i) == Draw(i, SeedStoreNext(stores[i]))

\* next(store)
CallDunderNext(i) == Draw(i, SeedStoreDunderNext(stores[i]))

\* one round of: for s in store
IterateNext(i) == Draw(i, SeedStoreDunderNext(SeedStoreIter(stores[i])))

NextSeed ==
    \E i \in 1..2 : CallNext(i) \/ CallDunderNext(i) \/ IterateNext(i)

SpecSeed == InitSeed /\ [][NextSeed]_vars

(***************************************************************************)
(* The same pass run again on a fresh copy of the same TIM, as two calls   *)
(* of apply with the same seed make it (cli.py:371-411).                   *)
(***************************************************************************)
MaxPasses == 2

\* runs that vary the seed and the generators, with a context document that
\* is fixed or asks a generator for a value
ReproRuns ==
    [seed : SeedSet, jinja_config : {"config"}, inputs : {SomeInputs},
     generators : GeneratorLists,
     context_doc : {StrValue(YamlText(MappingValue(SomeContext))),
                    Generated("k1", "g1")},
     object_doc : {ListValue(m) : m \in Manifests(QueueSlice, 1, 1)},
     cwd_is_tsm : {TRUE}]

InitRepro ==
    /\ run \in ReproRuns
    /\ pc = "start"
    /\ seed_store = NoStore
    /\ context_env = NoEnv
    /\ render_env = NoEnv
    /\ created = <<>>
    /\ heap = [ref \in {DefaultParentContext} |-> {}]
    /\ context = 0
    /\ object_config = <<>>
    /\ stack = <<>>
    /\ delete_dirs = <<>>
    /\ delete_files = <<>>
    /\ pushed = <<>>
    /\ walked = <<>>
    /\ fs = TimTree(run)
    /\ rendered = <<>>
    /\ removed = <<>>
    /\ error = "none"
    /\ stores = <<NoStore, NoStore>>
    /\ draws = <<<<>>, <<>>>>
    /\ passes = <<>>
    /\ arg = <<>>
    /\ result = <<>>

\* what a pass that ended leaves behind: the instances bound in the two
\* environments, what setup_tsm returns (cli.py:303) or raised, and the tree
Outcome ==
    [context_env |-> context_env.globals, render_env |-> render_env.globals,
     created |-> created,
     context |-> IF context = 0 THEN {} ELSE heap[context],
     object_config |-> object_config, error |-> error, fs |-> fs]

\* the pass is over; the next one starts from a fresh copy of the TIM
PassEnds ==
    /\ pc \in {"done", "error"}
    /\ Len(passes) < MaxPasses
    /\ passes' = Append(passes, Outcome)
    /\ pc' = IF Len(passes') < MaxPasses THEN "start" ELSE "finished"
    /\ seed_store' = NoStore
    /\ context_env' = NoEnv
    /\ render_env' = NoEnv
    /\ created' = <<>>
    /\ heap' = [ref \in {DefaultParentContext} |-> heap[DefaultParentContext]]
    /\ context' = 0
    /\ object_config' = <<>>
    /\ stack' = <<>>
    /\ delete_dirs' = <<>>
    /\ delete_files' = <<>>
    /\ pushed' = <<>>
    /\ walked' = <<>>
    /\ fs' = TimTree(run)
    /\ rendered' = <<>>
    /\ removed' = <<>>
    /\ error' = "none"
    /\ UNCHANGED <<run, stores, draws, arg, result>>

NextRepro == Next \/ PassEnds

SpecRepro == InitRepro /\ [][NextRepro]_vars

(***************************************************************************)
(* apply (cli.py:350-404): the TIM is copied to the destination, the run   *)
(* configuration is loaded, then setup_tsm runs.  The inputs include       *)
(* documents that do not load, manifests that do not validate and nodes    *)
(* whose copy, render or write fails.                                      *)
(***************************************************************************)
MaxApplyNodes == 3

NoneValue == [type |-> "none"]
IntValue(n) == [type |-> "int", v |-> n]
ConfigFile == <<"model", "config.yml">>

\* the TIM as setup_repository copies it: the tree with the run configuration
ApplyTree(r) ==
    [q \in DOMAIN TimTree(r)
            \cup (IF r.config_doc = NoneValue THEN {} ELSE {ConfigFile}) |->
        IF q = ConfigFile THEN FileEntry(r.config_doc) ELSE TimTree(r)[q]]

\* Config(**mapping): the pydantic validation of the run configuration
ConfigValid(value) ==
    /\ value.type = "mapping"
    /\ \A kv \in value.v : kv[1] = "seed" => kv[2].type = "int"

\* config.py: the value of an Input that was given no default
MissingInput == [missing |-> TRUE]
\* the text of a raw input variable: JSON for a value, or text that is no JSON
JsonText(value) == [json |-> value]
InputsValue(defs) == [type |-> "inputs", v |-> defs]

\* Config(**mapping) / Config(): seed defaults to None and inputs to {}
ConfigOf(value) ==
    [seed |-> IF "seed" \in Keys(value.v) THEN DictGet(value.v, "seed")
              ELSE NoneValue,
     inputs |-> IF "inputs" \in Keys(value.v) THEN DictGet(value.v, "inputs").v
                ELSE {}]

ConfigDocs ==
    {NoneValue, StrValue(MalformedText),
     StrValue(YamlText(MappingValue({<<"seed", IntValue(1)>>}))),
     StrValue(YamlText(MappingValue({<<"seed", StrValue(PlainText("x"))>>})))}

\* nodes whose template is missing or whose destination is taken, and
\* directories with copy globs
ErrorSlice ==
    [fsrc |-> {<<"c">>, <<"x">>}, fdest |-> {<<"f">>, <<"a">>},
     fdelete |-> {TRUE}, fextra |-> {{}},
     dsrc |-> {<<"a">>}, ddest |-> {<<"o">>}, ddelete |-> {TRUE},
     dextra |-> {{}}, dcopy |-> {<<>>, <<"*">>, <<"c">>}]

\* raw nodes that do not validate: an unknown type, a missing field
InvalidManifests ==
    {<<[type |-> "link", name |-> "n", src |-> <<"c">>, dest |-> <<"f">>]>>,
     <<[type |-> "file", name |-> "n", dest |-> <<"f">>]>>}

\* a manifest whose second Directory copies onto a directory the first one
\* made, and one whose destination is a file of the TIM
ClashManifests ==
    {<<[type |-> "dir", name |-> "n", src |-> <<"a">>, dest |-> <<"o">>,
        contents |-> <<[type |-> "dir", name |-> "n", src |-> <<"b">>,
                        dest |-> <<"c">>]>>],
       [type |-> "dir", name |-> "n", src |-> <<"a">>, dest |-> <<"o">>,
        copy |-> <<"c">>]>>,
     <<[type |-> "dir", name |-> "n", src |-> <<"a">>, dest |-> <<"c">>]>>}

\* apply computes the seed and the inputs it calls setup_tsm with: a run
\* starts with neither
ApplyRuns(n, d) ==
    [seed : {NoneValue}, jinja_config : {"config"}, inputs : {{}},
     generators : {<<[name |-> "g1"]>>},
     context_doc : {StrValue(YamlText(MappingValue(SomeContext)))},
     object_doc : {ListValue(m) : m \in ClashManifests},
     cwd_is_tsm : {TRUE}, config_doc : {NoneValue}]
    \cup
    [seed : {NoneValue}, jinja_config : {"config"}, inputs : {{}},
     generators : {<<[name |-> "g1"]>>},
     context_doc : {StrValue(YamlText(MappingValue(SomeContext)))},
     object_doc : {ListValue(m) : m \in Manifests(ErrorSlice, n, d)},
     cwd_is_tsm : {TRUE}, config_doc : {NoneValue}]
    \cup
    [seed : {NoneValue}, jinja_config : {"config"}, inputs : {{}},
     generators : {<<[name |-> "g1"]>>},
     context_doc : {StrValue(YamlText(MappingValue(SomeContext)))},
     object_doc : {ListValue(m) : m \in Manifests(ErrorSlice, n - 1, d)},
     cwd_is_tsm : {FALSE}, config_doc : {NoneValue}]
    \cup
    [seed : {NoneValue}, jinja_config : {"config"}, inputs : {{}},
     generators : {<<[name |-> "g1"]>>},
     context_doc : {StrValue(YamlText(MappingValue(SomeContext))),
                    StrValue(MalformedText)},
     object_doc : {ListValue(m) : m \in Manifests(QueueSlice, 1, 1)
                                        \cup InvalidManifests}
                      \cup {StrValue(MalformedText)},
     cwd_is_tsm : {TRUE}, config_doc : ConfigDocs]

\* the command line of a run with a seed and no input variables
SeedOnlyArgs == [seed |-> IntValue(1), var |-> {}, var_file |-> {}]

InitApply ==
    /\ run \in ApplyRuns(MaxApplyNodes, MaxDepth)
    /\ pc = "apply"
    /\ seed_store = NoStore
    /\ context_env = NoEnv
    /\ render_env = NoEnv
    /\ created = <<>>
    /\ heap = [ref \in {DefaultParentContext} |-> {}]
    /\ context = 0
    /\ object_config = <<>>
    /\ stack = <<>>
    /\ delete_dirs = <<>>
    /\ delete_files = <<>>
    /\ pushed = <<>>
    /\ walked = <<>>
    /\ fs = <<>>
    /\ rendered = <<>>
    /\ removed = <<>>
    /\ error = "none"
    /\ stores = <<NoStore, NoStore>>
    /\ draws = <<<<>>, <<>>>>
    /\ passes = <<>>
    /\ arg = SeedOnlyArgs
    /\ result = <<>>

\* cli.py:371: setup_repository copies the TIM to the destination, which
\* does not exist before
SetupRepository ==
    /\ pc = "apply"
    /\ fs' = ApplyTree(run)
    /\ pc' = "config"
    /\ UNCHANGED <<run, seed_store, context_env, render_env, created, heap,
                   context, object_config, stack, delete_dirs, delete_files,
                   pushed, walked, rendered, removed, error, stores, draws,
                   passes, arg, result>>

\* what apply holds once the configuration is loaded: the Config object and
\* the outcome of convert_input_vars
Loaded(config) ==
    [config |-> config, inputs |-> {}, missing |-> {}, unused |-> {}]

\* cli.py:373-377: the run configuration, when the TIM has one, is loaded and
\* validated
LoadRunConfig ==
    /\ pc = "config"
    /\ IF ~Exists(fs, ConfigFile)
       THEN /\ pc' = "seed"
            /\ result' = Loaded(ConfigOf(MappingValue({})))
            /\ UNCHANGED error
       ELSE LET v == load_config(fs[ConfigFile].data)
            IN  IF v.type = "error" THEN Fail(v.v) /\ UNCHANGED result
                ELSE IF ~ConfigValid(v)
                THEN Fail("ValidationError") /\ UNCHANGED result
                ELSE /\ pc' = "seed"
                     /\ result' = Loaded(ConfigOf(v))
                     /\ UNCHANGED error
    /\ UNCHANGED <<run, seed_store, context_env, render_env, created, heap,
                   context, object_config, stack, delete_dirs, delete_files,
                   pushed, walked, fs, rendered, removed, stores, draws,
                   passes, arg>>

\* utils.create_seed: any int between -sys.maxsize and sys.maxsize
CreatedSeeds == {IntValue(n) : n \in (0 - MaxSize)..MaxSize}

\* a choice that takes the configured seed before the one of the command line
SetupSeedConfigFirst(cli_seed, config_seed) ==
    IF config_seed # NoneValue THEN {config_seed}
    ELSE IF cli_seed # NoneValue THEN {cli_seed}
    ELSE CreatedSeeds

\* cli.py:379-384: the values config.seed may hold after the seed is set up
SetupSeed(cli_seed, config_seed) ==
    IF cli_seed = NoneValue
    THEN IF config_seed = NoneValue THEN CreatedSeeds ELSE {config_seed}
    ELSE {cli_seed}

\* cli.py:379-384
SetupTheSeed ==
    /\ pc = "seed"
    /\ \E seed \in SetupSeed(arg.seed, result.config.seed) :
          result' = [result EXCEPT !.config.seed = seed]
    /\ pc' = "inputs"
    /\ UNCHANGED <<run, seed_store, context_env, render_env, created, heap,
                   context, object_config, stack, delete_dirs, delete_files,
                   pushed, walked, fs, rendered, removed, error, stores,
                   draws, passes, arg>>

\* parse_raw_as(model, raw), and parse_obj_as(model, raw) when raw is no JSON
\* (cli.py:176-181): an int is accepted where a str is asked for, text that
\* is no number is not accepted where an int is asked for
ParseInput(model, raw) ==
    IF "json" \in DOMAIN raw
    THEN IF model = "int" THEN raw.json
         ELSE StrValue(PlainText(<<"str", raw.json.v>>))
    ELSE IF model = "int" THEN ErrorValue("ValidationError")
    ELSE StrValue(PlainText(raw.plain))

\* an input that keeps its default when a value was supplied
InputValueDefaultFirst(definition, name, input_vars) ==
    IF definition.value # MissingInput THEN definition.value
    ELSE IF name \in Keys(input_vars) THEN DictGet(input_vars, name)
    ELSE definition.value

\* cli.py:170-171: the value of an input after the supplied one was popped
InputValue(definition, name, input_vars) ==
    IF name \in Keys(input_vars) THEN DictGet(input_vars, name)
    ELSE definition.value

\* cli.py:149-189
convert_input_vars(inputs_config, input_vars) ==
    LET value(kv) == InputValue(kv[2], kv[1], input_vars)
        given == {kv \in inputs_config : value(kv) # MissingInput}
        parsed == {<<kv[1], ParseInput(kv[2].model, value(kv))>> : kv \in given}
    IN  [ok |-> \A kv \in parsed : kv[2].type # "error",
         inputs |-> parsed,
         missing |-> {kv[1] : kv \in {d \in inputs_config \ given : d[2].required}},
         unused |-> Keys(input_vars) \ Keys(inputs_config),
         config |-> {<<kv[1], [kv[2] EXCEPT !.value = value(kv)]>> :
                         kv \in inputs_config}]

\* cli.py:386-398: the input variables are merged and converted; apply exits
\* with status 2 when a required one is missing, and otherwise calls
\* setup_tsm with the seed and the inputs (402-411)
ConvertInputVars ==
    /\ pc = "inputs"
    /\ LET r == convert_input_vars(result.config.inputs,
                                   DictUpdate(arg.var_file, arg.var))
       IN  IF ~r.ok
           THEN Fail("ValidationError") /\ UNCHANGED <<run, result>>
           ELSE /\ result' = [config |-> [result.config EXCEPT !.inputs = r.config],
                              inputs |-> r.inputs, missing |-> r.missing,
                              unused |-> r.unused]
                /\ IF r.missing # {}
                   THEN Fail("SystemExit") /\ UNCHANGED run
                   ELSE /\ run' = [run EXCEPT !.seed = result.config.seed.v,
                                              !.inputs = r.inputs]
                        /\ pc' = "start"
                        /\ UNCHANGED error
    /\ UNCHANGED <<seed_store, context_env, render_env, created, heap,
                   context, object_config, stack, delete_dirs, delete_files,
                   pushed, walked, fs, rendered, removed, stores, draws,
                   passes, arg>>

\* the snapshot files of the model directory
ContextSnapshot == <<"model", "context.yml">>
ObjectConfigSnapshot == <<"model", "templates.yml">>

\* utils.write_config: the data as a YAML document
WriteConfig(f, dest, type, data) ==
    WriteFile(f, dest, [fmt |-> "yaml", value |-> [type |-> type, v |-> data]])

\* cli.py:306-322, called at 413 when setup_tsm has returned
WriteTsmConfigs ==
    /\ pc = "done"
    /\ LET f1 == WriteConfig(fs, ConfigFile, "config", result.config)
           f2 == WriteConfig(f1, ContextSnapshot, "mapping", heap[context])
           f3 == WriteConfig(f2, ObjectConfigSnapshot, "list",
                             [k \in DOMAIN object_config |->
                                 Dict(object_config[k])])
       IN  IF ~OpenWriteOk(fs, ConfigFile)
           THEN Fail("OSError") /\ UNCHANGED fs
           ELSE IF ~OpenWriteOk(f1, ContextSnapshot)
           THEN Fail("OSError") /\ fs' = f1
           ELSE IF ~OpenWriteOk(f2, ObjectConfigSnapshot)
           THEN Fail("OSError") /\ fs' = f2
           ELSE /\ fs' = f3
                /\ pc' = "written"
                /\ UNCHANGED error
    /\ UNCHANGED <<run, seed_store, context_env, render_env, created, heap,
                   context, object_config, stack, delete_dirs, delete_files,
                   pushed, walked, rendered, removed, stores, draws,
                   passes, arg, result>>

NextApply ==
    \/ SetupRepository
    \/ LoadRunConfig
    \/ SetupTheSeed
    \/ ConvertInputVars
    \/ WriteTsmConfigs
    \/ Next

SpecApply == InitApply /\ [][NextApply]_vars

(***************************************************************************)
(* apply with every command line: a seed option that is absent, 0 or       *)
(* another int, input variables given by --var and by --var-file, and a    *)
(* config.yml with or without a seed and with input definitions.           *)
(***************************************************************************)
\* the definitions of the inputs u and v (config.py: Input)
InputDefs(name) ==
    IF name = "u"
    THEN [model : {"int", "str"}, required : BOOLEAN,
          value : {MissingInput, JsonText(IntValue(7))}]
    ELSE [model : {"int"}, required : BOOLEAN, value : {MissingInput}]

\* config.inputs: a definition for none, one or both of u and v
InputConfigs ==
    {u \cup v : u \in {{}} \cup {{<<"u", d>>} : d \in InputDefs("u")},
                v \in {{}} \cup {{<<"v", d>>} : d \in InputDefs("v")}}

CliConfigDocs ==
    {NoneValue}
        \cup {StrValue(YamlText(MappingValue(seed \cup {<<"inputs", InputsValue(i)>>}))) :
                  seed \in {{}, {<<"seed", IntValue(1)>>}}, i \in InputConfigs}

\* the raw variables of --var (u, and w that no configuration defines) and
\* of the --var-file (u and v)
CliVars ==
    {u \cup w : u \in {{}, {<<"u", JsonText(IntValue(5))>>},
                         {<<"u", PlainText("y")>>}},
                w \in {{}, {<<"w", JsonText(IntValue(5))>>}}}
CliVarFiles ==
    {u \cup v : u \in {{}, {<<"u", JsonText(IntValue(6))>>}},
                v \in {{}, {<<"v", JsonText(IntValue(6))>>}}}

CliArgs ==
    [seed : {NoneValue, IntValue(0), IntValue(2)}, var : CliVars,
     var_file : CliVarFiles]

\* a manifest with a Directory and a File, both flagged delete
CliManifest ==
    <<[type |-> "dir", name |-> "n", src |-> <<"a">>, dest |-> <<"o">>,
       delete |-> TRUE,
       contents |-> <<[type |-> "file", name |-> "n", src |-> <<"c">>,
                       dest |-> <<"f">>, delete |-> TRUE]>>]>>

CliRuns ==
    [seed : {NoneValue}, jinja_config : {"config"}, inputs : {{}},
     generators : {<<[name |-> "g1"]>>},
     context_doc : {StrValue(YamlText(MappingValue(SomeContext)))},
     object_doc : {ListValue(CliManifest)},
     cwd_is_tsm : {TRUE}, config_doc : CliConfigDocs]

InitCli ==
    /\ run \in CliRuns
    /\ arg \in CliArgs
    /\ pc = "apply"
    /\ seed_store = NoStore
    /\ context_env = NoEnv
    /\ render_env = NoEnv
    /\ created = <<>>
    /\ heap = [ref \in {DefaultParentContext} |-> {}]
    /\ context = 0
    /\ object_config = <<>>
    /\ stack = <<>>
    /\ delete_dirs = <<>>
    /\ delete_files = <<>>
    /\ pushed = <<>>
    /\ walked = <<>>
    /\ fs = <<>>
    /\ rendered = <<>>
    /\ removed = <<>>
    /\ error = "none"
    /\ stores = <<NoStore, NoStore>>
    /\ draws = <<<<>>, <<>>>>
    /\ passes = <<>>
    /\ result = <<>>

SpecCli == InitCli /\ [][NextApply]_vars

(***************************************************************************)
(* Functions called on their own: no pass is running, arg holds the        *)
(* argument and result what the call gave.                                 *)
(***************************************************************************)
passVars == <<run, seed_store, context_env, render_env, created, heap, context,
              object_config, stack, delete_dirs, delete_files, pushed, walked,
              fs, rendered, removed, error, stores, draws, passes>>

NoPass ==
    /\ run = IdleRun
    /\ seed_store = NoStore
    /\ context_env = NoEnv
    /\ render_env = NoEnv
    /\ created = <<>>
    /\ heap = [ref \in {DefaultParentContext} |-> {}]
    /\ context = 0
    /\ object_config = <<>>
    /\ stack = <<>>
    /\ delete_dirs = <<>>
    /\ delete_files = <<>>
    /\ pushed = <<>>
    /\ walked = <<>>
    /\ fs = TimTree(run)
    /\ rendered = <<>>
    /\ removed = <<>>
    /\ error = "none"
    /\ stores = <<NoStore, NoStore>>
    /\ draws = <<<<>>, <<>>>>
    /\ passes = <<>>

(***************************************************************************)
(* plugin.py: _check_plugin_allowed and get_generators; config.py:         *)
(* PluginConfig.  A name is a sequence of letters.  A pattern is ".*", a   *)
(* literal, or a literal followed by "$"; Pattern.match looks for a match  *)
(* that starts at the beginning of the name.                               *)
(***************************************************************************)
MaxEntryPoints == 2

Names == {<<"a">>, <<"a", "b">>, <<"b">>}

AnyPattern == [kind |-> "any"]
LiteralPattern(text) == [kind |-> "literal", text |-> text]
EndPattern(text) == [kind |-> "end", text |-> text]
Patterns ==
    {AnyPattern} \cup {LiteralPattern(t) : t \in Names}
                 \cup {EndPattern(t) : t \in Names}

\* Pattern.match(name): whether some prefix of name matches the pattern
PatternMatch(pattern, name) ==
    CASE pattern.kind = "any" -> TRUE
      [] pattern.kind = "literal" -> IsPrefix(pattern.text, name)
      [] pattern.kind = "end" -> pattern.text = name

\* PluginConfig(): include everything, exclude nothing
DefaultPluginConfig ==
    [include_names |-> <<AnyPattern>>, exclude_names |-> <<>>]

\* ep.load() and the capability test of an allowed entry point (plugin.py:
\* 115-122): the load may raise, issubclass raises a TypeError when the
\* loaded object is no class, and a class that is no generator or has no
\* yaml_tag gives None
LoadAndTest(ep) ==
    IF ~ep.class_.loadable THEN [ok |-> FALSE, error |-> "ImportError"]
    ELSE IF ~ep.class_.is_class THEN [ok |-> FALSE, error |-> "TypeError"]
    ELSE [ok |-> TRUE,
          value |-> IF ep.class_.is_generator /\ ep.class_.has_yaml_tag
                    THEN <<ep.class_>> ELSE <<>>]

\* a check that never looks at the exclude patterns
CheckPluginAllowedIncludeOnly(ep, plugin_config) ==
    IF \E i \in 1..Len(plugin_config.include_names) :
           PatternMatch(plugin_config.include_names[i], ep.name)
    THEN LoadAndTest(ep)
    ELSE [ok |-> TRUE, value |-> <<>>]

\* _check_plugin_allowed: <<class>> when the plugin is allowed, <<>> for None
_check_plugin_allowed(ep, plugin_config) ==
    IF /\ \E i \in 1..Len(plugin_config.include_names) :
             PatternMatch(plugin_config.include_names[i], ep.name)
       /\ ~\E i \in 1..Len(plugin_config.exclude_names) :
             PatternMatch(plugin_config.exclude_names[i], ep.name)
    THEN LoadAndTest(ep)
    ELSE [ok |-> TRUE, value |-> <<>>]

\* get_generators: ep.load() of every allowed entry point, in the order
\* entry_points yields them; an exception of a check ends the call
RECURSIVE get_generators(_, _)
get_generators(entry_points, plugin_config) ==
    IF entry_points = <<>> THEN [ok |-> TRUE, value |-> <<>>]
    ELSE LET c == _check_plugin_allowed(Head(entry_points), plugin_config)
             rest == get_generators(Tail(entry_points), plugin_config)
         IN  IF ~c.ok THEN c
             ELSE IF ~rest.ok THEN rest
             ELSE [ok |-> TRUE,
                   value |-> (IF c.value # <<>>
                              THEN <<Head(entry_points).class_>> ELSE <<>>)
                             \o rest.value]

\* what an entry point can load: a class that is or is not a generator, with
\* or without a YAML tag, an object that is no class, or nothing because the
\* load fails
Classes ==
    [is_generator : BOOLEAN, has_yaml_tag : BOOLEAN, is_class : {TRUE},
     loadable : {TRUE}]
        \cup {[is_generator |-> FALSE, has_yaml_tag |-> FALSE,
               is_class |-> FALSE, loadable |-> TRUE],
              [is_generator |-> FALSE, has_yaml_tag |-> FALSE,
               is_class |-> FALSE, loadable |-> FALSE]}
EntryPoints == [name : Names, class_ : Classes]
EntryPointLists(n) == UNION {[1..k -> EntryPoints] : k \in 0..n}
PluginConfigs ==
    {DefaultPluginConfig}
        \cup [include_names : {<<p>> : p \in Patterns},
              exclude_names : {<<>>} \cup {<<p>> : p \in Patterns}]

InitPlugins ==
    /\ NoPass
    /\ pc = "plugins"
    /\ arg \in [entry_points : EntryPointLists(MaxEntryPoints),
                 plugin_config : PluginConfigs]
    /\ result = <<>>

GetGenerators ==
    /\ pc = "plugins"
    /\ LET r == get_generators(arg.entry_points, arg.plugin_config)
       IN  IF r.ok
           THEN result' = r.value /\ pc' = "plugins_done" /\ UNCHANGED error
           ELSE Fail(r.error) /\ UNCHANGED result
    /\ UNCHANGED <<run, seed_store, context_env, render_env, created, heap,
                   context, object_config, stack, delete_dirs, delete_files,
                   pushed, walked, fs, rendered, removed, stores, draws,
                   passes, arg>>

NextPlugins == GetGenerators

SpecPlugins == InitPlugins /\ [][NextPlugins]_vars

(***************************************************************************)
(* render_template called on its own with each of the three environments.  *)
(***************************************************************************)
RenderNames == {"context", "g1", "missing"}

\* the object environment, and context and render environments with every
\* generator list
RenderEnvs ==
    {create_template_object_environment}
        \cup {create_context_environment(SeedStore(1), g, <<>>).env :
                  g \in GeneratorLists}
        \cup {create_environment(SeedStore(1), "config", g, <<>>).env :
                  g \in GeneratorLists}

RenderTemplates ==
    {TextTemplate(Variable(n)) : n \in RenderNames}
        \cup {TextTemplate(Embedded(n)) : n \in RenderNames}
        \cup {TextTemplate(Generated("k1", n)) : n \in RenderNames}
        \cup {TextTemplate(Literal(StrValue(PlainText("text"))))}
        \cup {PathTemplate(q) : q \in {<<"b">>, <<"c">>, <<"a", "c">>, <<"x">>}}

RenderContexts ==
    {{}, {<<"context", MappingValue(SomeContext)>>},
     FileContext(SomeInputs, SomeContext, [extra |-> {}])}

InitRender ==
    /\ NoPass
    /\ pc = "render"
    /\ arg \in [env : RenderEnvs, template : RenderTemplates,
                 kwargs : RenderContexts]
    /\ result = <<>>

RenderTemplate ==
    /\ pc = "render"
    /\ result' = render_template(arg.env, fs, arg.template, arg.kwargs)
    /\ pc' = "render_done"
    /\ UNCHANGED <<passVars, arg>>

NextRender == RenderTemplate

SpecRender == InitRender /\ [][NextRender]_vars

(***************************************************************************)
(* validate_object_list called on its own, and the round trip through      *)
(* dict().  The raw nodes include nodes without a type, with an unknown    *)
(* type and without a required field, at every depth.                      *)
(***************************************************************************)
MaxRawNodes == 2

RawLeaves ==
    {[type |-> "file", name |-> "n", src |-> <<"c">>, dest |-> <<"f">>],
     [type |-> "file", name |-> "n", src |-> <<"c">>, dest |-> <<"f">>,
      delete |-> FALSE, extra |-> {<<"k1", 1>>}],
     [type |-> "file", name |-> "n", src |-> <<"c">>],
     [type |-> "link", name |-> "n", src |-> <<"c">>, dest |-> <<"f">>],
     [name |-> "n", src |-> <<"c">>, dest |-> <<"f">>],
     [type |-> "dir", name |-> "n", src |-> <<"a">>, dest |-> <<"o">>],
     [type |-> "dir", name |-> "n", src |-> <<"a">>, dest |-> <<"o">>,
      delete |-> TRUE, extra |-> {}, copy |-> <<"*">>, contents |-> <<>>]}

\* the leaves and the directories that hold one node of the depth below
RECURSIVE RawNodes(_)
RawNodes(d) ==
    IF d = 0 THEN RawLeaves
    ELSE RawLeaves \cup
         {[type |-> "dir", name |-> "n", src |-> <<"a">>, dest |-> <<"o">>,
           contents |-> <<x>>] : x \in RawNodes(d - 1)}

RawLists(n, d) == UNION {[1..k -> RawNodes(d)] : k \in 0..n}

InitValidate ==
    /\ NoPass
    /\ pc = "validate"
    /\ arg \in RawLists(MaxRawNodes, MaxDepth - 1)
    /\ result = <<>>

Validate ==
    /\ pc = "validate"
    /\ result' = validate_object_list(arg)
    /\ pc' = "validated"
    /\ UNCHANGED <<passVars, arg>>

\* the validated list serialized node by node and validated again
RoundTrip ==
    /\ pc = "validated"
    /\ result.ok
    /\ result' = [first |-> result.value,
                  again |-> validate_object_list(
                                [i \in 1..Len(result.value) |->
                                     Dict(result.value[i])])]
    /\ pc' = "round_trip"
    /\ UNCHANGED <<passVars, arg>>

NextValidate == Validate \/ RoundTrip

SpecValidate == InitValidate /\ [][NextValidate]_vars

(***************************************************************************)
(* Passes whose File nodes render templates of every kind of value: text,  *)
(* text that reads as YAML, numbers, booleans, None, mappings and lists.    *)
(***************************************************************************)
MaxWriteNodes == 3

BoolValue(b) == [type |-> "bool", v |-> b]

\* the values the templates of the File nodes evaluate to
WriteValues ==
    {StrValue(PlainText("text")),
     StrValue(YamlText(MappingValue(SomeContext))),
     IntValue(7), BoolValue(TRUE), NoneValue,
     MappingValue(SomeContext), MappingValue({}),
     ListValue(<<IntValue(1), IntValue(2)>>), ListValue(<<>>)}

\* the templates of the File nodes: one for each value, and one that
\* references a name that nothing binds
WriteTemplates == {Literal(v) : v \in WriteValues} \cup {Variable("missing")}

\* File nodes of the template c, at the top and inside the directory a, that
\* write a new file or over the file b of the TIM
WriteSlice ==
    [fsrc |-> {<<"c">>}, fdest |-> {<<"f">>, <<"b">>}, fdelete |-> BOOLEAN,
     fextra |-> {{}},
     dsrc |-> {<<"a">>}, ddest |-> {<<"o">>}, ddelete |-> {TRUE},
     dextra |-> {{}}, dcopy |-> {<<>>}]

WriteRuns(n, d) ==
    [seed : {1}, jinja_config : {"config"}, inputs : {SomeInputs},
     generators : {<<[name |-> "g1"]>>},
     context_doc : {StrValue(YamlText(MappingValue(SomeContext)))},
     object_doc : {ListValue(m) : m \in Manifests(WriteSlice, n, d)},
     cwd_is_tsm : {TRUE}, template : WriteTemplates]

\* the TIM whose templates c and a/c are the run's template
WriteTree(r) ==
    [p \in DOMAIN TimTree(r) |->
        IF p \in {<<"c">>, <<"a", "c">>} THEN FileEntry(r.template)
        ELSE TimTree(r)[p]]

InitWrite ==
    /\ run \in WriteRuns(MaxWriteNodes, MaxDepth)
    /\ pc = "start"
    /\ seed_store = NoStore
    /\ context_env = NoEnv
    /\ render_env = NoEnv
    /\ created = <<>>
    /\ heap = [ref \in {DefaultParentContext} |-> {}]
    /\ context = 0
    /\ object_config = <<>>
    /\ stack = <<>>
    /\ delete_dirs = <<>>
    /\ delete_files = <<>>
    /\ pushed = <<>>
    /\ walked = <<>>
    /\ fs = WriteTree(run)
    /\ rendered = <<>>
    /\ removed = <<>>
    /\ error = "none"
    /\ stores = <<NoStore, NoStore>>
    /\ draws = <<<<>>, <<>>>>
    /\ passes = <<>>
    /\ arg = <<>>
    /\ result = <<>>

SpecWrite == InitWrite /\ [][Next]_vars

(***************************************************************************)
(* Passes whose nodes render in place: the dest of a node may be its src,  *)
(* or lie inside a directory that is queued for removal.                   *)
(***************************************************************************)
MaxOverlapNodes == 3

OverlapSlice ==
    [fsrc |-> {<<"c">>}, fdest |-> {<<"c">>, <<"f">>}, fdelete |-> BOOLEAN,
     fextra |-> {{}},
     dsrc |-> {<<"a">>}, ddest |-> {<<"a">>, <<"o">>}, ddelete |-> BOOLEAN,
     dextra |-> {{}}, dcopy |-> {<<>>}]

OverlapRuns(n, d) ==
    [seed : {1}, jinja_config : {"config"}, inputs : {SomeInputs},
     generators : {<<[name |-> "g1"]>>},
     context_doc : {StrValue(YamlText(MappingValue(SomeContext)))},
     object_doc : {ListValue(m) : m \in Manifests(OverlapSlice, n, d)},
     cwd_is_tsm : {TRUE}]

InitOverlap ==
    /\ run \in OverlapRuns(MaxOverlapNodes, MaxDepth - 1)
    /\ pc = "start"
    /\ seed_store = NoStore
    /\ context_env = NoEnv
    /\ render_env = NoEnv
    /\ created = <<>>
    /\ heap = [ref \in {DefaultParentContext} |-> {}]
    /\ context = 0
    /\ object_config = <<>>
    /\ stack = <<>>
    /\ delete_dirs = <<>>
    /\ delete_files = <<>>
    /\ pushed = <<>>
    /\ walked = <<>>
    /\ fs = TimTree(run)
    /\ rendered = <<>>
    /\ removed = <<>>
    /\ error = "none"
    /\ stores = <<NoStore, NoStore>>
    /\ draws = <<<<>>, <<>>>>
    /\ passes = <<>>
    /\ arg = <<>>
    /\ result = <<>>

SpecOverlap == InitOverlap /\ [][Next]_vars

(***************************************************************************)
(* render_tim called directly, several times in one process, each time     *)
(* with env, object_list, src_dir, dest_dir and global_context only: the   *)
(* parameters parent_context, delete_dirs and delete_files take their      *)
(* defaults (template.py:445-454).  The tree is the one the call before    *)
(* left.                                                                   *)
(***************************************************************************)
MaxCalls == 2
MaxCallNodes == 2

\* manifests whose directories add to the parent context and queue paths
CallSlice ==
    [fsrc |-> {<<"c">>}, fdest |-> {<<"f">>}, fdelete |-> {TRUE},
     fextra |-> {{}},
     dsrc |-> {<<"a">>}, ddest |-> {<<"o">>}, ddelete |-> BOOLEAN,
     dextra |-> {{<<"k1", 1>>}}, dcopy |-> {<<>>}]

CallLists(n, d) ==
    {validate_object_list(m).value : m \in Manifests(CallSlice, n, d)}

InitCalls ==
    /\ run = IdleRun
    /\ pc = "call"
    /\ seed_store = NoStore
    /\ context_env = NoEnv
    /\ render_env = create_environment(SeedStore(run.seed), run.jinja_config,
                                       run.generators, <<>>).env
    /\ created = <<>>
    /\ heap = [ref \in {DefaultParentContext} |-> {}]
    /\ context = 0
    /\ object_config = <<>>
    /\ stack = <<>>
    /\ delete_dirs = <<>>
    /\ delete_files = <<>>
    /\ pushed = <<>>
    /\ walked = <<>>
    /\ fs = TimTree(run)
    /\ rendered = <<>>
    /\ removed = <<>>
    /\ error = "none"
    /\ stores = <<NoStore, NoStore>>
    /\ draws = <<<<>>, <<>>>>
    /\ passes = <<>>
    /\ arg = <<>>
    /\ result = <<>>

\* a default that is one deque made when the function is defined, which
\* every call without the argument then shares
DequeOrShared(given, last) == IF given = NoneValue THEN last ELSE given

\* template.py:474-477: the queue a call works on is the one it was given,
\* or a new deque when it was given none; last is the deque of the call before
DequeOrNew(given, last) == IF given = NoneValue THEN <<>> ELSE given

\* template.py:445-477: one more top-level call.  The frame's parent_context
\* is the default object of the signature; the nodes of call number k have
\* the addresses that start with k
RenderTimCall ==
    /\ pc = "call"
    /\ Len(passes) < MaxCalls
    /\ \E object_list \in CallLists(MaxCallNodes, MaxCallNodes - 1) :
          /\ object_config' = object_list
          /\ stack' = <<[object_list |-> object_list, i |-> 1,
                         src_dir |-> <<>>, dest_dir |-> <<>>,
                         global_context |-> run.inputs,
                         parent_context |-> DefaultParentContext,
                         addr |-> <<Len(passes) + 1>>]>>
    /\ delete_dirs' = DequeOrNew(NoneValue, delete_dirs)
    /\ delete_files' = DequeOrNew(NoneValue, delete_files)
    /\ pc' = "walk"
    /\ UNCHANGED <<run, seed_store, context_env, render_env, created, heap,
                   context, pushed, walked, fs, rendered, removed, error,
                   stores, draws, passes, arg, result>>

\* template.py:524: the outermost call hands its two queues to the caller,
\* or an exception of the walk reaches the caller, who may call again.  The
\* copies the call made are unreachable from then on, the default object
\* stays; the logs of the walk are kept per call
RenderTimCallEnds ==
    /\ pc \in {"drain_files", "error"}
    /\ passes' = Append(passes, [delete_dirs |-> delete_dirs,
                                 delete_files |-> delete_files,
                                 error |-> error])
    /\ heap' = [ref \in {DefaultParentContext} |-> heap[DefaultParentContext]]
    /\ stack' = <<>>
    /\ pushed' = <<>>
    /\ walked' = <<>>
    /\ rendered' = <<>>
    /\ error' = "none"
    /\ pc' = "call"
    /\ UNCHANGED <<run, seed_store, context_env, render_env, created,
                   context, object_config, delete_dirs, delete_files,
                   fs, removed, stores, draws, arg, result>>

NextCalls ==
    \/ RenderTimCall
    \/ RenderTimDirectory
    \/ RenderTimFile
    \/ RenderTimReturn
    \/ RenderTimCallEnds

SpecCalls == InitCalls /\ [][NextCalls]_vars

(***************************************************************************)
(* core.py: the random generator models.  A model is constructed from its  *)
(* parameters, each field passing through the validators of its class in   *)
(* turn: a validator raises, or the value it returns becomes the value of  *)
(* the field.  setup then seeds the generator from the seed store.  Floats *)
(* are the whole numbers of a small range.                                 *)
(***************************************************************************)
MaxParam == 7
MaxChoices == 2

FloatValue(n) == [type |-> "float", v |-> n]

\* the largest whole number v with v <= 2 * pi
FloorTwoPi == 6

\* a validator returns a value, or its assertion fails
Accept(v) == [ok |-> TRUE, value |-> v]
Reject == [ok |-> FALSE]

\* RandomChoice, RandomChoices
choices_must_be_non_empty(v) == IF Len(v.v) > 0 THEN Accept(v) ELSE Reject

\* RandomChoices
weights_exclusivity(v, values) ==
    IF values.weights = NoneValue THEN Accept(v) ELSE Reject

\* RandomExponential
non_zero_lambda(v) == IF v.v # 0 THEN Accept(v) ELSE Reject

\* RandomGamma, on alpha and on beta
greater_than_zero(v) == IF v.v > 0 THEN Accept(v) ELSE Reject

\* RandomGauss.non_negative_sigma
RandomGauss_non_negative_sigma(v) == IF v.v > 0 THEN Accept(v) ELSE Reject

\* RandomBits
non_zero_bits(v) == IF v.v > 0 THEN Accept(v) ELSE Reject

\* RandomLogNormal, RandomNormal
non_negative_sigma(v) == IF v.v >= 0 THEN Accept(v) ELSE Reject

\* RandomPareto
non_zero_alpha(v) == IF v.v # 0 THEN Accept(v) ELSE Reject

\* RandomSample
non_negative_size(v) == IF v.v >= 0 THEN Accept(v) ELSE Reject

\* RandomSample, after non_negative_size
non_size_max_len_choices(v, values) ==
    IF "choices" \in DOMAIN values => v.v <= Len(values.choices.v)
    THEN Accept(v) ELSE Reject

\* RandomVonMises: the assertion, then a return without a value
mu_value_range(v) ==
    IF v.v >= 0 /\ v.v <= FloorTwoPi THEN Accept(NoneValue) ELSE Reject

\* RandomVonMises
non_negative_kappa(v) == IF v.v >= 0 THEN Accept(v) ELSE Reject

\* RandomWeibull
non_zero_beta(v) == IF v.v # 0 THEN Accept(v) ELSE Reject

\* the validators the class declares for the field, applied in the order of
\* their declaration; a field left at None is not handed to its validators
ValidateField(cls, field, v, values) ==
    CASE cls \in {"RandomChoice", "RandomChoices"} /\ field = "choices" ->
            choices_must_be_non_empty(v)
      [] cls = "RandomChoices" /\ field = "cum_weights" ->
            IF v = NoneValue THEN Accept(v) ELSE weights_exclusivity(v, values)
      [] cls = "RandomExponential" /\ field = "lambda_" -> non_zero_lambda(v)
      [] cls = "RandomGamma" /\ field \in {"alpha", "beta"} ->
            greater_than_zero(v)
      [] cls = "RandomGauss" /\ field = "sigma" ->
            RandomGauss_non_negative_sigma(v)
      [] cls = "RandomBits" /\ field = "bits" -> non_zero_bits(v)
      [] cls \in {"RandomLogNormal", "RandomNormal"} /\ field = "sigma" ->
            non_negative_sigma(v)
      [] cls = "RandomPareto" /\ field = "alpha" -> non_zero_alpha(v)
      [] cls = "RandomSample" /\ field = "size" ->
            IF non_negative_size(v).ok
            THEN non_size_max_len_choices(non_negative_size(v).value, values)
            ELSE Reject
      [] cls = "RandomVonMises" /\ field = "mu" -> mu_value_range(v)
      [] cls = "RandomVonMises" /\ field = "kappa" -> non_negative_kappa(v)
      [] cls = "RandomWeibull" /\ field = "beta" -> non_zero_beta(v)
      [] OTHER -> Accept(v)

\* cls(**params): the model, or the validation error
Construct(cls, params) ==
    LET checked == [f \in DOMAIN params |->
                        ValidateField(cls, f, params[f], params)]
    IN  IF \A f \in DOMAIN params : checked[f].ok
        THEN [ok |-> TRUE,
              value |-> [cls |-> cls,
                         fields |-> [f \in DOMAIN params |-> checked[f].value]]]
        ELSE [ok |-> FALSE, error |-> "ValidationError"]

\* RandomGeneratorBase.setup: self._random = Random(seed_store.next())
RandomGeneratorBase_setup(gen, store) ==
    LET d == SeedStoreNext(store)
    IN  [gen |-> [cls |-> gen.cls, fields |-> gen.fields,
                  random |-> RandomSeed(d.value)],
         seed |-> d.value, store |-> d.store]

Floats == {FloatValue(n) : n \in -1..MaxParam}
Ints == {IntValue(n) : n \in -1..MaxChoices + 1}
ChoiceLists ==
    {ListValue(l) : l \in UNION {[1..n -> {1}] : n \in 0..MaxChoices}}

\* the classes with their parameters
GeneratorArgs ==
    [cls : {"RandomBeta", "RandomGamma", "RandomWeibull"},
     params : [alpha : Floats, beta : Floats]]
    \cup [cls : {"RandomGauss", "RandomLogNormal", "RandomNormal"},
          params : [mu : Floats, sigma : Floats]]
    \cup [cls : {"RandomVonMises"}, params : [mu : Floats, kappa : Floats]]
    \cup [cls : {"RandomExponential"}, params : [lambda_ : Floats]]
    \cup [cls : {"RandomPareto"}, params : [alpha : Floats]]
    \cup [cls : {"RandomBits"}, params : [bits : Ints]]
    \cup [cls : {"RandomChoice"}, params : [choices : ChoiceLists]]
    \cup [cls : {"RandomChoices"},
          params : [choices : ChoiceLists,
                    weights : {NoneValue, ListValue(<<1>>)},
                    cum_weights : {NoneValue, ListValue(<<1>>)},
                    size : {IntValue(1)}]]
    \cup [cls : {"RandomSample"}, params : [choices : ChoiceLists, size : Ints]]

InitRandom ==
    /\ run = IdleRun
    /\ pc = "construct"
    /\ seed_store = NoStore
    /\ context_env = NoEnv
    /\ render_env = NoEnv
    /\ created = <<>>
    /\ heap = [ref \in {DefaultParentContext} |-> {}]
    /\ context = 0
    /\ object_config = <<>>
    /\ stack = <<>>
    /\ delete_dirs = <<>>
    /\ delete_files = <<>>
    /\ pushed = <<>>
    /\ walked = <<>>
    /\ fs = TimTree(run)
    /\ rendered = <<>>
    /\ removed = <<>>
    /\ error = "none"
    /\ \E s \in SeedSet : stores = <<SeedStore(s), NoStore>>
    /\ draws = <<<<>>, <<>>>>
    /\ passes = <<>>
    /\ arg \in GeneratorArgs
    /\ result = <<>>

\* the model is constructed from the parameters
ConstructGenerator ==
    /\ pc = "construct"
    /\ result' = Construct(arg.cls, arg.params)
    /\ IF result'.ok THEN pc' = "setup" /\ UNCHANGED error
       ELSE Fail(result'.error)
    /\ UNCHANGED <<run, seed_store, context_env, render_env, created, heap,
                   context, object_config, stack, delete_dirs, delete_files,
                   pushed, walked, fs, rendered, removed, stores, draws,
                   passes, arg>>

\* setup is called on the model with the seed store
SetupGenerator ==
    /\ pc = "setup"
    /\ LET s == RandomGeneratorBase_setup(result.value, stores[1])
       IN  /\ result' = [ok |-> TRUE, value |-> s.gen]
           /\ stores' = [stores EXCEPT ![1] = s.store]
           /\ draws' = [draws EXCEPT ![1] = Append(@, s.seed)]
    /\ pc' = "ready"
    /\ UNCHANGED <<run, seed_store, context_env, render_env, created, heap,
                   context, object_config, stack, delete_dirs, delete_files,
                   pushed, walked, fs, rendered, removed, error, passes, arg>>

NextRandom == ConstructGenerator \/ SetupGenerator

SpecRandom == InitRandom /\ [][NextRandom]_vars

(***************************************************************************)
(* Helpers of the properties.                                              *)
(***************************************************************************)
Reverse(q) == [i \in 1..Len(q) |-> q[Len(q) + 1 - i]]
Project(q) == [i \in 1..Len(q) |-> <<q[i].path, q[i].by>>]
IsFileEntry(e) == e.kind = "file"
IsDirEntry(e) == e.kind = "dir"
Min(a, b) == IF a < b THEN a ELSE b

\* the parent_context layered along an address: the extra of each Directory
\* on the way applied in turn, outermost first
RECURSIVE Layered(_, _, _)
Layered(ctx, object_list, addr) ==
    IF addr = <<>> THEN ctx
    ELSE Layered(DictUpdate(ctx, object_list[addr[1]].extra),
                 object_list[addr[1]].contents, Tail(addr))

\* the keys the Directories above an address add
RECURSIVE AncestorKeys(_, _)
AncestorKeys(object_list, addr) ==
    IF addr = <<>> THEN {}
    ELSE Keys(object_list[addr[1]].extra)
             \cup AncestorKeys(object_list[addr[1]].contents, Tail(addr))

Above(addr) == SubSeq(addr, 1, Len(addr) - 1)
InitialParentContext == load_config(run.context_doc).v
ParentContextOf(r) == DictGet(r.kwargs, "parent_context").v

\* the names a template source references
Referenced(source) ==
    (IF "variable" \in DOMAIN source THEN {source.variable} ELSE {})
        \cup (IF "embedded" \in DOMAIN source THEN {source.embedded} ELSE {})
        \cup (IF "generated" \in DOMAIN source THEN {source.generated} ELSE {})

\* the source of the template render_template was called with, when it has one
HasSource(f, template) == "text" \in DOMAIN template \/ IsFile(f, template.path)
SourceOf(f, template) ==
    IF "text" \in DOMAIN template THEN template.text ELSE f[template.path].data

\* the addresses of a manifest in the order render_tim visits them
RECURSIVE Preorder(_, _)
Preorder(object_list, prefix) ==
    IF object_list = <<>> THEN <<>>
    ELSE LET n == Len(object_list)
             last == object_list[n]
         IN  Preorder(SubSeq(object_list, 1, n - 1), prefix)
                 \o <<Append(prefix, n)>>
                 \o (IF last.type_ = "dir"
                     THEN Preorder(last.contents, Append(prefix, n))
                     ELSE <<>>)

\* every raw node, at every depth, has a type that is file or dir, and a
\* name, a src and a dest
RECURSIVE AllTyped(_)
AllTyped(raw_list) ==
    \A i \in 1..Len(raw_list) :
        /\ {"type", "name", "src", "dest"} \subseteq DOMAIN raw_list[i]
        /\ raw_list[i].type \in {"file", "dir"}
        /\ "contents" \in DOMAIN raw_list[i] => AllTyped(raw_list[i].contents)

\* the src and the dest of the node at an address, as render_tim joins them
RECURSIVE SrcAt(_, _)
SrcAt(object_list, addr) ==
    IF addr = <<>> THEN <<>>
    ELSE JoinPath(object_list[addr[1]].src,
                  IF Len(addr) = 1 THEN <<>>
                  ELSE SrcAt(object_list[addr[1]].contents, Tail(addr)))
RECURSIVE DestAt(_, _)
DestAt(object_list, addr) ==
    IF addr = <<>> THEN <<>>
    ELSE JoinPath(object_list[addr[1]].dest,
                  IF Len(addr) = 1 THEN <<>>
                  ELSE DestAt(object_list[addr[1]].contents, Tail(addr)))

\* the tree a copy glob is resolved in
GlobTree == IF run.cwd_is_tsm THEN ApplyTree(run) ELSE OtherCwdTree

\* the files under src that a Directory's copy patterns match
Copied(node, src) ==
    {q \in UNION {Matches(GlobTree, src, node.copy_[i]) :
                      i \in 1..Len(node.copy_)} : IsFile(GlobTree, q)}

\* the store after n draws
RECURSIVE StoreAfter(_, _)
StoreAfter(store, n) ==
    IF n = 0 THEN store ELSE StoreAfter(SeedStoreDunderNext(store).store, n - 1)

(***************************************************************************)
(* The properties.                                                         *)
(***************************************************************************)
\* C1: nothing is unlinked or removed before every node of the manifest,
\* nested ones included, has been processed exactly once and the outermost
\* render_tim call has returned
C1_AllRenderedBeforeAnyDeletion ==
    removed # <<>> =>
        /\ stack = <<>>
        /\ Range(walked) = Addresses(object_config)
        /\ Len(walked) = Cardinality(Addresses(object_config))
        /\ \A k \in 1..Len(rendered) : rendered[k].ok

C1_Witness ==
    /\ pc = "done"
    /\ \E k \in 1..Len(walked) : Len(walked[k]) >= 2
    /\ \E i, j \in 1..Len(removed) :
          removed[i].kind = "file" /\ removed[j].kind = "dir"

\* C2: the file deque is empty, and every file queued is gone, before the
\* first directory is removed; each deque is drained last in, first out
C2_FilesThenDirsLifo ==
    /\ (\E i \in 1..Len(removed) : removed[i].kind = "dir") =>
          /\ delete_files = <<>>
          /\ \A k \in 1..Len(pushed) :
                pushed[k].kind = "file" => ~Exists(fs, pushed[k].path)
    /\ \A i, j \in 1..Len(removed) :
          i < j => ~(removed[i].kind = "dir" /\ removed[j].kind = "file")
    /\ Project(delete_files) \o Reverse(Project(SelectSeq(removed, IsFileEntry)))
          = Project(SelectSeq(pushed, IsFileEntry))
    /\ Project(delete_dirs) \o Reverse(Project(SelectSeq(removed, IsDirEntry)))
          = Project(SelectSeq(pushed, IsDirEntry))

C2_Witness ==
    /\ pc = "done"
    /\ Len(SelectSeq(removed, IsFileEntry)) >= 2
    /\ Len(SelectSeq(removed, IsDirEntry)) >= 1

\* C3: of two queued paths of which one lies inside the other, the contained
\* one is removed first, and no unlink / rmtree of the drain targets a path
\* of the tree that an earlier removal of the drain already took away
C3_ContainedPathRemovedFirst ==
    /\ \A i, j \in 1..Len(removed) :
          i < j => ~(/\ IsPrefix(removed[i].path, removed[j].path)
                     /\ removed[i].path # removed[j].path)
    /\ \A i, j \in 1..Len(removed) :
          i < j => ~(/\ removed[i].ok
                     /\ Exists(TimTree(run), removed[j].path)
                     /\ IsPrefix(removed[i].path, removed[j].path))

\* C4: a path is queued only for a node flagged delete, and neither deque
\* ever holds the same path twice
C4_NoPathQueuedTwice ==
    /\ \A k \in 1..Len(pushed) : NodeAt(object_config, pushed[k].by).delete
    /\ \A i, j \in 1..Len(delete_dirs) :
          i # j => delete_dirs[i].path # delete_dirs[j].path
    /\ \A i, j \in 1..Len(delete_files) :
          i # j => delete_files[i].path # delete_files[j].path

\* C5: no path is in both deques
C5_QueuesDisjoint == Paths(delete_dirs) \cap Paths(delete_files) = {}

\* C6: the parent_context a File is rendered with holds no key other than
\* those of the initial parent_context and of the extra of its own ancestors,
\* so none that only a sibling Directory adds
C6_SiblingIsolation ==
    \A k \in 1..Len(rendered) :
        Keys(ParentContextOf(rendered[k])) \subseteq
            Keys(InitialParentContext)
                \cup AncestorKeys(object_config, Above(rendered[k].addr))

C6_Witness ==
    /\ pc = "done"
    /\ \E k \in 1..Len(rendered), j \in 1..MaxCtxNodes :
          LET a == rendered[k].addr
          IN  /\ rendered[k].ok
              /\ Len(a) = 3
              /\ j < a[2]
              /\ <<a[1], j>> \in Addresses(object_config)
              /\ NodeAt(object_config, <<a[1], j>>).type_ = "dir"
              /\ ~(Keys(NodeAt(object_config, <<a[1], j>>).extra)
                      \subseteq Keys(ParentContextOf(rendered[k])))

\* C7: a File's parent_context is the initial one updated with the extra of
\* each ancestor, outermost first, and no call changes the mapping it was
\* called with
C7_ParentContextLayered ==
    /\ \A k \in 1..Len(rendered) :
          ParentContextOf(rendered[k]) =
              Layered(InitialParentContext, object_config, Above(rendered[k].addr))
    /\ context # 0 => heap[context] = InitialParentContext
    /\ heap[DefaultParentContext] = {}
    /\ \A k \in 1..Len(stack) :
          heap[stack[k].parent_context] =
              Layered(InitialParentContext, object_config, stack[k].addr)

C7_Witness ==
    /\ pc = "done"
    /\ \E k \in 1..Len(rendered) :
          LET a == rendered[k].addr
          IN  /\ rendered[k].ok
              /\ Len(a) = 3
              /\ NodeAt(object_config, <<a[1]>>).extra = {<<"k1", 1>>}
              /\ NodeAt(object_config, <<a[1], a[2]>>).extra = {<<"k1", 2>>}
              /\ <<"k1", 2>> \in ParentContextOf(rendered[k])

\* C8: every File is rendered with exactly the keys context, parent_context
\* and local_context: the rendered context mapping, the extra accumulated
\* from its ancestors, and its own extra
C8_ThreeLayerContext ==
    \A k \in 1..Len(rendered) :
        LET r == rendered[k]
        IN  /\ Keys(r.kwargs) = {"context", "parent_context", "local_context"}
            /\ DictGet(r.kwargs, "context").v = load_config(run.context_doc).v
            /\ ParentContextOf(r) = Layered({}, object_config, Above(r.addr))
            /\ DictGet(r.kwargs, "local_context").v
                  = NodeAt(object_config, r.addr).extra

\* C9: two stores made from the same root seed agree on every draw both
\* have made, whichever way each draw was asked for
C9_SeedStoreDeterministic ==
    stores[1].mother_seed = stores[2].mother_seed =>
        \A k \in 1..Min(Len(draws[1]), Len(draws[2])) : draws[1][k] = draws[2][k]

C9_Witness ==
    /\ stores[1].mother_seed = stores[2].mother_seed
    /\ Len(draws[1]) = MaxDraws
    /\ Len(draws[2]) = MaxDraws
    /\ draws[1][1] # draws[1][2]

\* C11: every pass run with the same generators, seed, inputs and templates
\* binds instances with the same seeds in each environment and returns the
\* same context mapping and the same manifest
C11_Reproducible ==
    \A i, j \in 1..Len(passes) : passes[i] = passes[j]

C11_Witness ==
    /\ Len(passes) = MaxPasses
    /\ passes[1].error = "none"
    /\ Len(run.generators) = 2
    /\ run.generators[1].name = "g1"
    /\ "generated" \in DOMAIN run.context_doc
    /\ passes[MaxPasses].created[1].seed # passes[MaxPasses].created[2].seed

\* C12: get_generators returns, in discovery order and once each, the
\* classes of exactly the entry points whose name matches an include pattern
\* and no exclude pattern and whose class is a generator with a YAML tag;
\* with the default configuration every such class is returned
C12_PluginsFiltered ==
    pc = "plugins_done" =>
        LET eps == arg.entry_points
            cfg == arg.plugin_config
            Kept == {k \in 1..Len(eps) :
                       /\ \E i \in 1..Len(cfg.include_names) :
                             PatternMatch(cfg.include_names[i], eps[k].name)
                       /\ \A i \in 1..Len(cfg.exclude_names) :
                             ~PatternMatch(cfg.exclude_names[i], eps[k].name)
                       /\ eps[k].class_.is_generator
                       /\ eps[k].class_.has_yaml_tag}
            Nth(i) == CHOOSE k \in Kept : Cardinality({j \in Kept : j < k}) = i - 1
        IN  /\ Len(result) = Cardinality(Kept)
            /\ \A i \in 1..Len(result) : result[i] = eps[Nth(i)].class_
            /\ cfg = DefaultPluginConfig =>
                  Kept = {k \in 1..Len(eps) : /\ eps[k].class_.is_generator
                                              /\ eps[k].class_.has_yaml_tag}

C12_Witness ==
    /\ pc = "plugins_done"
    /\ Len(arg.entry_points) = 2
    /\ Len(result) = 1
    /\ arg.entry_points[1].class_ = arg.entry_points[2].class_
    /\ arg.plugin_config.exclude_names # <<>>
    /\ PatternMatch(arg.plugin_config.exclude_names[1], arg.entry_points[1].name)

C14_ConfigErrorBeforeMutation ==
    error \in {"JSONDecodeError", "ValidationError"} => fs = <<>>

\* C15: when a node fails, the pass stops there: the nodes processed are
\* exactly those before the failing node in traversal order, what they wrote
\* is still in place, nothing runs after the error, and nothing was removed
C15_AbortAtFailingNode ==
    error # "none" /\ stack # <<>> =>
        /\ pc = "error"
        /\ ~ENABLED NextApply
        /\ removed = <<>>
        /\ Len(walked) < Len(Preorder(object_config, <<>>))
        /\ walked = SubSeq(Preorder(object_config, <<>>), 1, Len(walked))
        /\ Preorder(object_config, <<>>)[Len(walked) + 1] = Addr
        /\ \A k \in 1..Len(rendered) :
              rendered[k].ok => IsFile(fs, rendered[k].dest)
        /\ \A q \in DOMAIN ApplyTree(run) : Exists(fs, q)

C15_Witness ==
    /\ pc = "error"
    /\ stack # <<>>
    /\ Len(walked) >= 1
    /\ Len(walked) + 1 < Len(Preorder(object_config, <<>>))
    /\ \E k \in 1..Len(rendered) : rendered[k].ok
    /\ pushed # <<>>

\* C16: validate_object_list accepts a raw list only if every node at every
\* depth has type file or dir and a name, a src and a dest
C16_ValidationStrict ==
    pc = "validated" /\ result.ok => AllTyped(arg)

\* C17: serializing a validated list with dict() and validating the result
\* gives the same list again
C17_SchemaRoundTrip ==
    pc = "round_trip" => result.again.ok /\ result.again.value = result.first

C17_Witness ==
    /\ pc = "round_trip"
    /\ Len(result.first) = 2
    /\ result.first[1].type_ = "dir"
    /\ Len(result.first[1].contents) = 1
    /\ result.first[1].contents[1].type_ = "dir"
    /\ "delete" \notin DOMAIN arg[1]
    /\ "copy" \notin DOMAIN arg[1]

\* C18: once a Directory is processed its destination is a directory, every
\* file under src that a copy pattern matches is at the same relative path
\* under dest with the same content, and the walk made no other path than
\* destination directories, rendered files and copies
C18_DirectoryCopied ==
    /\ \A k \in 1..Len(walked) :
          LET node == NodeAt(object_config, walked[k])
              src == SrcAt(object_config, walked[k])
              dest == DestAt(object_config, walked[k])
          IN  node.type_ = "dir" =>
                  /\ IsDir(fs, dest)
                  /\ \A q \in Copied(node, src) :
                        LET to == JoinPath(dest, SubSeq(q, Len(src) + 1, Len(q)))
                        IN  IsFile(fs, to) /\ fs[to] = GlobTree[q]
    /\ \A q \in DOMAIN fs \ (DOMAIN ApplyTree(run)
                            \cup {ConfigFile, ContextSnapshot,
                                  ObjectConfigSnapshot}) :
          \/ \E k \in 1..Len(rendered) : rendered[k].dest = q
          \/ \E a \in Addresses(object_config) :
                LET node == NodeAt(object_config, a)
                    src == SrcAt(object_config, a)
                    dest == DestAt(object_config, a)
                IN  /\ node.type_ = "dir"
                    /\ \/ IsPrefix(q, dest)
                       \/ \E c \in Copied(node, src) :
                             q = JoinPath(dest, SubSeq(c, Len(src) + 1, Len(c)))

\* a copy pattern of a Directory whose source target is missing: src is no
\* directory where the glob is resolved, or the pattern names a path that
\* does not exist under it
MissingTarget(src, glb) ==
    \/ ~IsDir(GlobTree, src)
    \/ glb # "*" /\ Matches(GlobTree, src, glb) = {}

\* C19: a file system error of the walk is fatal: no Directory is processed
\* with a copy pattern whose source target is missing, a File whose write
\* fails is the last thing the pass does and leaves the error set, no node is
\* tried twice, and a File that was processed has its destination written
C19_FilesystemErrorsFatal ==
    /\ \A k \in 1..Len(walked) :
          LET node == NodeAt(object_config, walked[k])
              src == SrcAt(object_config, walked[k])
          IN  node.type_ = "dir" =>
                  \A i \in 1..Len(node.copy_) : ~MissingTarget(src, node.copy_[i])
    /\ \A k \in 1..Len(rendered) :
          /\ ~rendered[k].ok =>
                /\ k = Len(rendered)
                /\ error # "none"
                /\ pc = "error"
                /\ ~ENABLED NextApply
          /\ \A j \in 1..Len(rendered) : rendered[j].addr = rendered[k].addr => j = k
          /\ rendered[k].ok /\ pc = "walk" => IsFile(fs, rendered[k].dest)
    /\ error = "OSError" => pc = "error" /\ ~ENABLED NextApply

\* the addresses of the File nodes of a manifest
FileAddresses(object_list) ==
    {a \in Addresses(object_list) : NodeAt(object_list, a).type_ = "file"}

\* C20: the file a File node wrote holds the rendered value as YAML when the
\* value is a mapping or a list and as its str() text otherwise; no File node
\* is rendered twice, and a pass that ends has rendered and written every
\* File node once
C20_WrittenOnce ==
    /\ \A k \in 1..Len(rendered) :
          /\ NodeAt(object_config, rendered[k].addr).type_ = "file"
          /\ \A j \in 1..Len(rendered) :
                rendered[j].addr = rendered[k].addr => j = k
          /\ (/\ rendered[k].ok
              /\ \A j \in (k + 1)..Len(rendered) :
                    rendered[j].ok => rendered[j].dest # rendered[k].dest) =>
                LET r == render_template(render_env, WriteTree(run),
                                         PathTemplate(rendered[k].src),
                                         rendered[k].kwargs)
                IN  /\ r.ok
                    /\ IsFile(fs, rendered[k].dest)
                    /\ fs[rendered[k].dest].data =
                          IF r.value.type \in {"mapping", "list"}
                          THEN [fmt |-> "yaml", value |-> r.value]
                          ELSE [fmt |-> "str", value |-> r.value]
    /\ pc = "done" =>
          \A a \in FileAddresses(object_config) :
              \E k \in 1..Len(rendered) : rendered[k].addr = a /\ rendered[k].ok

C20_Witness ==
    /\ pc = "done"
    /\ Len(rendered) = 2
    /\ rendered[1].dest = <<"o", "f">>
    /\ rendered[2].dest = <<"f">>
    /\ fs[<<"f">>].data.fmt = "yaml"
    /\ fs[<<"o", "f">>].data.value = ListValue(<<IntValue(1), IntValue(2)>>)
    /\ removed # <<>>

\* q extends p by appending
IsExtension(p, q) == Len(p) <= Len(q) /\ SubSeq(q, 1, Len(p)) = p

\* the deques after the nodes order[1..k] were processed in that order: a
\* node flagged delete is appended to the deque of its kind unless its src is
\* in the file deque at that moment
RECURSIVE QueuesAfter(_, _)
QueuesAfter(order, k) ==
    IF k = 0 THEN [dirs |-> <<>>, files |-> <<>>]
    ELSE LET before == QueuesAfter(order, k - 1)
             node == NodeAt(object_config, order[k])
             e == [path |-> SrcAt(object_config, order[k]), by |-> order[k]]
         IN  IF ~node.delete \/ e.path \in Paths(before.files) THEN before
             ELSE IF node.type_ = "dir"
             THEN [before EXCEPT !.dirs = Append(@, e)]
             ELSE [before EXCEPT !.files = Append(@, e)]

\* the nodes of one kind that are flagged delete, in traversal order
FlaggedOf(kind) ==
    SelectSeq(Preorder(object_config, <<>>),
              LAMBDA a : /\ NodeAt(object_config, a).type_ = kind
                         /\ NodeAt(object_config, a).delete)

Origins(q) == [k \in 1..Len(q) |-> q[k].by]

\* C21 as stated: when the walk has ended each deque holds, in traversal
\* order, every node of its kind that is flagged delete
C21_QueuesHoldEveryFlaggedNode ==
    pc = "drain_files" /\ removed = <<>> =>
        /\ Origins(delete_dirs) = FlaggedOf("dir")
        /\ Origins(delete_files) = FlaggedOf("file")

\* C21 as amended: the nodes are processed in depth-first declaration order,
\* a step of the walk only appends to the deques, and at every point of the
\* walk each deque holds, in traversal order, the flagged nodes of its kind
\* processed so far whose src was not in the file deque when they were reached
C21_PreorderAppendOnly ==
    /\ [](/\ walked = SubSeq(Preorder(object_config, <<>>), 1, Len(walked))
          /\ error = "none" /\ removed = <<>> /\ pc # "done" =>
                /\ delete_dirs = QueuesAfter(walked, Len(walked)).dirs
                /\ delete_files = QueuesAfter(walked, Len(walked)).files)
    /\ [][pc = "walk" => /\ IsExtension(delete_dirs, delete_dirs')
                         /\ IsExtension(delete_files, delete_files')]_vars

C21_Witness ==
    /\ pc = "drain_files"
    /\ removed = <<>>
    /\ Len(walked) = 3
    /\ Len(delete_dirs) = 1
    /\ Len(delete_files) = 1
    /\ Len(delete_files[1].by) = 2
    /\ Len(FlaggedOf("file")) = 2

\* the seed config.yml holds, None when there is no file or no seed in it
ConfiguredSeed ==
    IF run.config_doc = NoneValue THEN NoneValue
    ELSE ConfigOf(load_config(run.config_doc)).seed

\* C22: once set up, the seed of the run is the one of the command line if
\* one was given (0 included), else the one of config.yml if it has one, else
\* a created int; it never changes afterwards, it is the mother seed of the
\* pass's SeedStore, and it is the seed of the config.yml snapshot
C22_SeedPrecedence ==
    /\ [](pc \notin {"apply", "config", "seed"} /\ result # <<>> =>
            /\ arg.seed # NoneValue => result.config.seed = arg.seed
            /\ arg.seed = NoneValue /\ ConfiguredSeed # NoneValue =>
                  result.config.seed = ConfiguredSeed
            /\ arg.seed = NoneValue /\ ConfiguredSeed = NoneValue =>
                  result.config.seed \in CreatedSeeds
            /\ seed_store # NoStore =>
                  seed_store.mother_seed = result.config.seed.v
            /\ pc = "written" =>
                  fs[ConfigFile].data.value.v.seed = result.config.seed)
    /\ [][pc \notin {"apply", "config", "seed"} /\ result # <<>> =>
              result'.config.seed = result.config.seed]_vars

C22_Witness ==
    /\ pc = "written"
    /\ arg.seed = IntValue(0)
    /\ ConfiguredSeed = IntValue(1)
    /\ seed_store.mother_seed = 0
    /\ rendered # <<>>
    /\ removed # <<>>

\* config.inputs as config.yml defines them
ConfiguredInputs ==
    IF run.config_doc = NoneValue THEN {}
    ELSE ConfigOf(load_config(run.config_doc)).inputs

\* the value an input has: the one of --var, else the one of the --var-file,
\* else the default of its definition
GivenValue(name, definition) ==
    IF name \in Keys(arg.var) THEN DictGet(arg.var, name)
    ELSE IF name \in Keys(arg.var_file) THEN DictGet(arg.var_file, name)
    ELSE definition.value

\* C24: when convert_input_vars has returned, a configured input that has a
\* value is among the parsed inputs with the supplied value before the
\* default and --var before --var-file, a required one without a value is
\* missing, an optional one without a value is in neither, and the unused
\* names are the supplied names that are not configured; with a missing input
\* apply ends with exit(2) and has rendered and removed nothing
C24_InputsClassified ==
    /\ pc \notin {"apply", "config", "seed", "inputs"}
    /\ result # <<>>
    /\ error # "ValidationError"
    =>
    /\ \A kv \in ConfiguredInputs :
          LET value == GivenValue(kv[1], kv[2])
          IN  /\ value # MissingInput =>
                    /\ kv[1] \in Keys(result.inputs)
                    /\ DictGet(result.inputs, kv[1]) = ParseInput(kv[2].model, value)
                    /\ kv[1] \notin result.missing
              /\ value = MissingInput =>
                    /\ kv[1] \notin Keys(result.inputs)
                    /\ kv[1] \in result.missing <=> kv[2].required
    /\ Keys(result.inputs) \cup result.missing \subseteq Keys(ConfiguredInputs)
    /\ result.unused =
          (Keys(arg.var) \cup Keys(arg.var_file)) \ Keys(ConfiguredInputs)
    /\ result.missing # {} =>
          /\ pc = "error"
          /\ error = "SystemExit"
          /\ ~ENABLED NextApply
          /\ seed_store = NoStore
          /\ rendered = <<>>
          /\ removed = <<>>
          /\ fs = ApplyTree(run)
    /\ result.missing = {} => error # "SystemExit"

C24_Witness ==
    /\ pc = "written"
    /\ <<"u", JsonText(IntValue(6))>> \in arg.var_file
    /\ \E kv \in ConfiguredInputs :
          kv[1] = "u" /\ kv[2].value = JsonText(IntValue(7)) /\ kv[2].required
    /\ \E kv \in ConfiguredInputs : kv[1] = "v" /\ ~kv[2].required
    /\ result.inputs = {<<"u", IntValue(5)>>}
    /\ result.unused = {"w"}
    /\ rendered # <<>>
    /\ removed # <<>>

\* whether the include / exclude policy lets the name of an entry point pass
NameAllowed(ep, cfg) ==
    /\ \E i \in 1..Len(cfg.include_names) : PatternMatch(cfg.include_names[i], ep.name)
    /\ \A i \in 1..Len(cfg.exclude_names) : ~PatternMatch(cfg.exclude_names[i], ep.name)

\* C23: get_generators raises only when the load of an entry point that the
\* policy lets pass fails; neither a rejected name nor a loaded object that
\* is no generator makes it raise
C23_PluginLoadingNeverRaises ==
    pc # "plugins" =>
        \/ error = "none"
        \/ /\ error = "ImportError"
           /\ \E k \in 1..Len(arg.entry_points) :
                 /\ NameAllowed(arg.entry_points[k], arg.plugin_config)
                 /\ ~arg.entry_points[k].class_.loadable

\* the files of the TSM directory under src that a Directory's copy patterns
\* match
MatchedInTsm(node, src) ==
    {q \in UNION {Matches(ApplyTree(run), src, node.copy_[i]) :
                      i \in 1..Len(node.copy_)} : IsFile(ApplyTree(run), q)}

\* C25: the three uses of a node's src resolve it in the TSM directory: a
\* File that was rendered has its template there, a Directory that was
\* processed has copied what its patterns match there, and a path that was
\* removed was there
C25_SourceResolvedInTsm ==
    /\ \A k \in 1..Len(rendered) :
          rendered[k].ok => IsFile(ApplyTree(run), rendered[k].src)
    /\ \A k \in 1..Len(walked) :
          LET node == NodeAt(object_config, walked[k])
              src == SrcAt(object_config, walked[k])
              dest == DestAt(object_config, walked[k])
          IN  node.type_ = "dir" =>
                  \A q \in MatchedInTsm(node, src) :
                      Exists(fs, JoinPath(dest, SubSeq(q, Len(src) + 1, Len(q))))
    /\ \A k \in 1..Len(removed) :
          removed[k].ok => Exists(ApplyTree(run), removed[k].path)

\* C26: when a pass has ended without error, every File node's destination
\* is a file and every Directory node's destination is a directory
C26_OutputsSurviveDrain ==
    pc = "done" /\ error = "none" =>
        \A a \in Addresses(object_config) :
            IF NodeAt(object_config, a).type_ = "file"
            THEN IsFile(fs, DestAt(object_config, a))
            ELSE IsDir(fs, DestAt(object_config, a))

\* C27: the step of a File node whose template fails to render leaves the
\* file system as it was, the node's destination included, and has appended
\* the node's src to the file deque if the node is flagged delete and the
\* path was not in it
C27_FailedRenderLeavesDest ==
    [][/\ pc = "walk"
       /\ Len(rendered') = Len(rendered) + 1
       /\ error' \in {"UndefinedError", "TemplateNotFound"}
       =>
       /\ fs' = fs
       /\ ~rendered'[Len(rendered')].ok
       /\ delete_files' =
             IF Obj.delete /\ Src \notin Paths(delete_files)
             THEN Append(delete_files, [path |-> Src, by |-> Addr])
             ELSE delete_files]_vars

C27_Witness ==
    /\ pc = "error"
    /\ error = "UndefinedError"
    /\ Len(walked) = 1
    /\ Len(rendered) = 1
    /\ ~rendered[1].ok
    /\ rendered[1].dest = <<"b">>
    /\ fs[<<"b">>] = TimTree(run)[<<"b">>]
    /\ Len(delete_files) = 1
    /\ delete_files[1].by = rendered[1].addr

\* C28: repeated top-level render_tim calls made without queues or
\* parent_context leak nothing into one another: the default parent_context
\* object stays empty, a call starts with two empty queues and the empty
\* parent_context, and every entry of the queues a call works on or returned
\* was queued by a node of that very call.
C28_NoLeakBetweenCalls ==
    /\ heap[DefaultParentContext] = {}
    /\ pc = "walk" /\ Len(stack) = 1 /\ stack[1].i = 1
          => /\ delete_dirs = <<>>
             /\ delete_files = <<>>
             /\ heap[stack[1].parent_context] = {}
    /\ pc \in {"walk", "drain_files", "error"}
          => \A q \in {delete_dirs, delete_files} : \A i \in 1..Len(q) :
                q[i].by[1] = Len(passes) + 1
    /\ \A k \in 1..Len(passes) :
          \A q \in {passes[k].delete_dirs, passes[k].delete_files} :
             \A i \in 1..Len(q) : q[i].by[1] = k

\* a second call starts after a first one that returned a queued file and a
\* queued directory whose extra went into a copy of the parent_context
C28_Witness ==
    /\ Len(passes) = 1
    /\ passes[1].error = "none"
    /\ passes[1].delete_dirs # <<>>
    /\ passes[1].delete_files # <<>>
    /\ pc = "walk"
    /\ Len(stack) = 1
    /\ stack[1].i = 1
    /\ Len(stack[1].object_list) = 2
    /\ stack[1].object_list[1].type_ = "dir"
    /\ stack[1].object_list[1].extra # {}
    /\ stack[1].object_list[1].delete

\* C29 as stated: a random generator model constructed from accepted
\* parameters holds exactly the values it was given, RandomVonMises with mu
\* in [0, 2*pi] and kappa >= 0 included, and its setup has drawn exactly one
\* seed from the seed store.
C29_ValidatorsKeepValues ==
    /\ pc \in {"setup", "ready"}
          => \A f \in DOMAIN arg.params : result.value.fields[f] = arg.params[f]
    /\ pc = "construct" /\ arg.cls = "RandomVonMises"
          /\ arg.params.mu.v >= 0 /\ arg.params.mu.v <= FloorTwoPi
          /\ arg.params.kappa.v >= 0
          => ENABLED (ConstructGenerator /\ pc' = "setup")
    /\ pc = "setup" => draws[1] = <<>>
    /\ pc = "ready"
          => /\ Len(draws[1]) = 1
             /\ \E s \in SeedSet :
                   /\ draws[1][1] = SeedStoreNext(SeedStore(s)).value
                   /\ stores[1] = SeedStoreNext(SeedStore(s)).store
                   /\ result.value.random = RandomSeed(draws[1][1])

\* C10 as stated: one creation and one seed per generator in the pass, and
\* one instance per name in both environments
C10_OneCreationPerGenerator ==
    pc # "start" =>
        /\ Len(created) = Len(run.generators)
        /\ seed_store = StoreAfter(SeedStore(run.seed), Len(run.generators))
        /\ context_env.globals = render_env.globals

\* C10 as amended: each environment that binds generators creates every
\* generator once, so a pass creates each twice; every creation takes the next
\* seed of the pass's store; an environment binds a name to the instance it
\* created last for that name, and the two environments share no instance
C10_OneCreationPerEnvironment ==
    pc # "start" =>
        LET n == Len(run.generators)
            LastFor(name, lo, hi) ==
                CHOOSE k \in lo..hi :
                    /\ created[k].name = name
                    /\ \A m \in lo..hi : created[m].name = name => m <= k
        IN  /\ Len(created) = 2 * n
            /\ seed_store = StoreAfter(SeedStore(run.seed), 2 * n)
            /\ \A k \in 1..Len(created) :
                  /\ created[k].id = k
                  /\ created[k].name = run.generators[((k - 1) % n) + 1].name
                  /\ created[k].seed =
                        SeedStoreDunderNext(
                            StoreAfter(SeedStore(run.seed), k - 1)).value
            /\ context_env.globals =
                  {<<run.generators[k].name,
                     created[LastFor(run.generators[k].name, 1, n)]>> :
                       k \in 1..n}
            /\ render_env.globals =
                  {<<run.generators[k].name,
                     created[LastFor(run.generators[k].name, n + 1, 2 * n)]>> :
                       k \in 1..n}

C10_Witness ==
    /\ pc = "done"
    /\ Len(run.generators) = 2
    /\ run.generators[1].name # run.generators[2].name
    /\ Len(rendered) = 1

====
